---- MODULE Spec2Model ----
(***************************************************************************)
(* Level-by-level construction of a 2^d-ary box tree over particles, as    *)
(* done by the kernels of boxtree/tree_build_kernels.py: per level a       *)
(* segmented Morton-bin count scan, a global split-decision scan and an    *)
(* elementwise split-and-sort pass, followed by empty-box pruning.         *)
(*                                                                         *)
(* Arrays are functions over 0..n-1, as in the C kernels.  Coordinates     *)
(* and radii are integers counted in cells of a lattice; the bounding box  *)
(* has on every axis a minimum on the lattice and an extent that is a      *)
(* power of two of cells, at most GridSize.  Every quantity the kernels    *)
(* compute from them is a dyadic rational, so the integer arithmetic below *)
(* is exact where the kernels use floating point.                          *)
(***************************************************************************)
EXTENDS Integers, FiniteSets, Sequences, TLC

\* ------------------------------------------------------------------ bounds

LineDimensions == 1      \* codegen argument `dimensions` of the builds on a line
PlaneDimensions == 2     \* and of the builds in the plane
GridBits == 2            \* the bounding box is at most 2^GridBits cells wide
PlaneN == 2              \* at most this many particles in the plane
MaxBoxMin == 1           \* bounding box minima in the plane: 0..MaxBoxMin
MaxN == 3                \* at most this many particles
MaxLevel == 3            \* the driver's level bound
MaxRadius == 1           \* particle extent radii, in cells
MaxStickOut == 1         \* stick_out_factor is drawn from 0..MaxStickOut
MaxWeight == 1           \* refine weights are drawn from 0..MaxWeight
MaxLeafWeight == 2       \* max_leaf_refine_weight is drawn from 1..MaxLeafWeight
MaxPruneBoxes == 4       \* length of the box arrays handed to the prune scan
MaxPruneCount == 1       \* particle counts handed to the prune scan

BoxIdBits == 8           \* width of box_id_dtype, the narrowest being np.int8
OverflowDepths == 6      \* tree depths the box id overflow is looked for at

DeepLevels == 3          \* tree depths looked at from ShiftWidth on

INT_MAX == 2147483647
ShiftWidth == 32         \* bits of an unsigned, the type of 1U

RECURSIVE Pow2(_)
Pow2(k) == IF k = 0 THEN 1 ELSE 2 * Pow2(k - 1)

GridSize == Pow2(GridBits)

\* The largest box_id_t, and the box_id_t that an integer is stored as.
BoxIdMax == Pow2(BoxIdBits - 1) - 1

box_id_t(x) == ((x + BoxIdMax + 1) % Pow2(BoxIdBits)) - BoxIdMax - 1
\* ------------------------------------------------------------------- state

VARIABLES
    \* inputs of one build (never written by the kernels)
    dimensions,                 \* codegen argument `dimensions`
    bbox,                       \* bbox.min[axis], bbox.max[axis]
    N,                          \* nsrcntgts
    coords,                     \* coords[user id][axis]
    srcntgt_radii,
    refine_weights,
    max_leaf_refine_weight,
    stick_out_factor,
    adaptive,
    srcntgts_have_extent,
    \* driver
    pc,
    level,
    nboxes,
    nboxes_guess,
    prev_nboxes,                \* level_start_box_nrs[-1]
    have_oversize_split_box,
    \* per-particle arrays
    user_srcntgt_ids,
    srcntgt_box_ids,
    box_start_flags,
    morton_nrs,
    morton_bin_counts,
    split_box_ids,
    \* per-box arrays
    box_srcntgt_starts,
    box_srcntgt_counts_cumul,
    box_parent_ids,
    box_morton_nrs,
    box_levels,
    box_has_children,
    box_morton_bin_counts,
    \* pruning
    to_box_id,
    from_box_id,
    nboxes_post_prune,
    \* sources and targets
    sources_are_targets,
    nsources,
    box_srcntgt_counts_nonchild,
    source_numbers,
    user_source_ids,
    srcntgt_target_ids,
    sorted_target_ids,
    box_source_starts,
    box_source_counts_cumul,
    box_target_starts,
    box_target_counts_cumul,
    box_source_counts_nonchild,
    box_target_counts_nonchild,
    \* box info
    box_child_ids,              \* box_child_ids[morton_nr][box]
    box_centers,                \* box_centers[axis][box]
    box_flags,
    \* target filter
    tree_order_flags,
    filtered_from_unfiltered_target_index,
    unfiltered_from_filtered_target_index,
    nfiltered_targets,
    box_target_starts_filtered,
    box_target_counts_nonchild_filtered

inputs == <<dimensions, bbox, N, coords, srcntgt_radii, refine_weights,
            max_leaf_refine_weight, stick_out_factor, adaptive,
            srcntgts_have_extent>>
particle_arrays == <<user_srcntgt_ids, srcntgt_box_ids, box_start_flags,
                     morton_nrs, morton_bin_counts, split_box_ids>>
box_records == <<box_srcntgt_starts, box_srcntgt_counts_cumul, box_parent_ids,
                 box_morton_nrs, box_levels>>
prune_vars == <<to_box_id, from_box_id, nboxes_post_prune>>
source_target_vars == <<sources_are_targets, nsources, source_numbers,
                        user_source_ids, srcntgt_target_ids, sorted_target_ids,
                        box_source_starts, box_source_counts_cumul,
                        box_target_starts, box_target_counts_cumul>>
nonchild_counts == <<box_source_counts_nonchild, box_target_counts_nonchild>>
box_info_vars == <<box_child_ids, box_centers, box_flags>>
filter_vars == <<tree_order_flags, filtered_from_unfiltered_target_index,
                 unfiltered_from_filtered_target_index, nfiltered_targets,
                 box_target_starts_filtered,
                 box_target_counts_nonchild_filtered>>
tree_vars == <<box_srcntgt_counts_nonchild, source_target_vars,
               nonchild_counts, box_info_vars, filter_vars>>
vars == <<inputs, pc, level, nboxes, nboxes_guess, prev_nboxes,
          have_oversize_split_box, particle_arrays, box_records,
          box_has_children, box_morton_bin_counts, prune_vars, tree_vars>>

NChildren == Pow2(dimensions)        \* ${2**dimensions}
Axes == 0 .. dimensions - 1
MortonNrs == 0 .. NChildren - 1

Particles == 0 .. N - 1
BoxSlots == 0 .. nboxes_guess - 1

\* ----------------------------------------------------------------- helpers

Zeros(n) == [j \in 0 .. n - 1 |-> 0]

\* An array grown to n entries; the new entries hold `fill`.
Extend(arr, n, fill) ==
    [j \in 0 .. n - 1 |-> IF j \in DOMAIN arr THEN arr[j] ELSE fill]

RECURSIVE SumOver(_, _)
SumOver(f, S) ==
    IF S = {} THEN 0
    ELSE LET x == CHOOSE y \in S : TRUE IN f[x] + SumOver(f, S \ {x})

\* All arrays of length k whose entry j is one of cands[j]: the outcomes of
\* a parallel scatter in which cands[j] holds what the lanes write to slot j
\* (or what an unwritten slot may hold).
\* The slots lo .. hi - 1 are put together from their two halves.
RECURSIVE ArraysOver(_, _, _)
ArraysOver(cands, lo, hi) ==
    IF hi <= lo THEN {Zeros(0)}
    ELSE IF hi = lo + 1 THEN {[j \in lo .. lo |-> v] : v \in cands[lo]}
    ELSE LET mid == (lo + hi) \div 2
         IN  {[j \in lo .. hi - 1 |-> IF j < mid THEN f[j] ELSE g[j]] :
                  f \in ArraysOver(cands, lo, mid),
                  g \in ArraysOver(cands, mid, hi)}

ArraysFrom(cands, k) == ArraysOver(cands, 0, k)


\* ------------------------------------------------- Morton bin count scan

\* (variant: across a segment boundary the left operand is kept)
scan_t_add_keep_left(a, b, across_seg_boundary) ==
    IF ~across_seg_boundary
    THEN [nonchild_srcntgts |-> b.nonchild_srcntgts + a.nonchild_srcntgts,
          pcnt |-> [m \in MortonNrs |-> a.pcnt[m] + b.pcnt[m]],
          pwt |-> [m \in MortonNrs |->
                      IF b.pwt[m] > 0 /\ a.pwt[m] > INT_MAX - b.pwt[m]
                      THEN INT_MAX ELSE a.pwt[m] + b.pwt[m]]]
    ELSE a

scan_t_neutral ==
    [nonchild_srcntgts |-> 0,
     pcnt |-> [m \in MortonNrs |-> 0],
     pwt |-> [m \in MortonNrs |-> 0]]

\* ((long) a + b > INT_MAX) ? INT_MAX : a + b, the test being made without
\* leaving the range of int
my_add_sat(a, b) == IF b > 0 /\ a > INT_MAX - b THEN INT_MAX ELSE a + b

scan_t_add(a, b, across_seg_boundary) ==
    IF ~across_seg_boundary
    THEN [nonchild_srcntgts |-> b.nonchild_srcntgts + a.nonchild_srcntgts,
          pcnt |-> [m \in MortonNrs |-> a.pcnt[m] + b.pcnt[m]],
          pwt |-> [m \in MortonNrs |-> my_add_sat(a.pwt[m], b.pwt[m])]]
    ELSE b

\* The count that 1U << level shifts by: the shift of a 32-bit operand takes
\* the low five bits of its right operand.
ShiftCount(lvl) == lvl % ShiftWidth

\* bbox->min_${ax} and bbox->max_${ax} - global_min_${ax}
global_min(ax) == bbox.min[ax]

global_extent(ax) == bbox.max[ax] - global_min(ax)

\* The k with extent = 2^k, for every extent a bounding box can have.
ExtentBits ==
    [extent \in {Pow2(k) : k \in 0 .. GridBits} |->
        CHOOSE k \in 0 .. GridBits : Pow2(k) = extent]

\* (unsigned) (((x - global_min) / global_extent) * (1U << level)); the
\* quotient is formed without leaving the range of int.
AxisBits(ax, x, lvl) ==
    LET extent_bits == ExtentBits[global_extent(ax)]
    IN  IF ShiftCount(lvl) >= extent_bits
        THEN (x - global_min(ax)) * Pow2(ShiftCount(lvl) - extent_bits)
        ELSE ((x - global_min(ax)) * Pow2(ShiftCount(lvl)))
                 \div global_extent(ax)

\* (variant: the radius is scaled by (1 + STICK_OUT_FACTOR) / 2 and compared
\* with the faces of the box itself)
StopDescentOnAxis_scaled_radius(ax, x, radius, lvl) ==
    LET bits == AxisBits(ax, x, lvl)
        shifted == Pow2(ShiftCount(lvl))
    IN  \/ shifted * (2 * (x - global_min(ax))
                          + radius * (1 + stick_out_factor))
               >= 2 * global_extent(ax) * (bits + 1)
        \/ shifted * (2 * (x - global_min(ax))
                          - radius * (1 + stick_out_factor))
               < 2 * global_extent(ax) * bits

\* The two stop_srcntgt_descent tests of one axis, global_min taken from
\* either side and each side multiplied by 2 * (1U << level):
\*   center - global_min = global_extent * (bits + 1/2) / (1U << level),
\*   stick-out radius = (1 + STICK_OUT_FACTOR) / 2 * global_extent
\*                          / (1U << level).
StopDescentOnAxis(ax, x, radius, lvl) ==
    \E bits \in {AxisBits(ax, x, lvl)}, shifted \in {Pow2(ShiftCount(lvl))} :
        LET center2 == global_extent(ax) * (2 * bits + 1)
            stick_out2 == (1 + stick_out_factor) * global_extent(ax)
        IN  \/ 2 * shifted * (x + radius - global_min(ax))
                   >= center2 + stick_out2
            \/ 2 * shifted * (x - radius - global_min(ax))
                   < center2 - stick_out2

\* | (${ax}_bits & 1U) << (${dimensions-1-iax})
MortonBitsOf(user_id, lvl) ==
    LET bit(ax) == (AxisBits(ax, coords[user_id][ax], lvl) % 2)
                      * Pow2(dimensions - 1 - ax)
    IN  SumOver([ax \in Axes |-> bit(ax)], Axes)

LevelMortonNumber(user_id, lvl) ==
    IF /\ srcntgts_have_extent
       /\ \E ax \in Axes :
              StopDescentOnAxis(ax, coords[user_id][ax],
                                srcntgt_radii[user_id], lvl)
    THEN -1
    ELSE MortonBitsOf(user_id, lvl)

\* The scan item of particle i; level_morton_number is computed once.
scan_t_from_particle(i, lvl) ==
    LET user_srcntgt_id == user_srcntgt_ids[i]
        results ==
            {[nonchild_srcntgts |->
                  IF srcntgts_have_extent /\ level_morton_number = -1
                  THEN 1 ELSE 0,
              pcnt |-> [m \in MortonNrs |->
                           IF level_morton_number = m THEN 1 ELSE 0],
              pwt |-> [m \in MortonNrs |->
                          IF level_morton_number = m
                          THEN refine_weights[user_srcntgt_id] ELSE 0]] :
                level_morton_number
                    \in {LevelMortonNumber(user_srcntgt_id, lvl)}}
    IN  CHOOSE result \in results : TRUE

\* The segmented inclusive scan: item of particle i, and of every particle.
RECURSIVE MortonScanItem(_)
MortonScanItem(i) ==
    IF i = 0 THEN scan_t_from_particle(0, level)
    ELSE scan_t_add(MortonScanItem(i - 1), scan_t_from_particle(i, level),
                    box_start_flags[i] = 1)

MortonScanItems == [i \in Particles |-> MortonScanItem(i)]

my_id_in_my_box(item) ==
    -1 + item.nonchild_srcntgts + SumOver(item.pcnt, MortonNrs)

\* (variant: every lane of the box stores its item)
MortonBoxWriters_any(items, b) == {i \in Particles : srcntgt_box_ids[i] = b}

\* The lanes whose output statement stores box_morton_bin_counts[b].
MortonBoxWriters(items, b) ==
    {i \in Particles :
        /\ srcntgt_box_ids[i] = b
        /\ my_id_in_my_box(items[i]) + 1 = box_srcntgt_counts_cumul[b]}

\* What box_morton_bin_counts[b] may hold after the scan: the item of any
\* lane storing it, or the old value if no lane does.
MortonBoxOutcomes(items, b) ==
    LET writers == MortonBoxWriters(items, b)
    IN  IF writers = {} THEN {box_morton_bin_counts[b]}
        ELSE {items[i] : i \in writers}

MortonCountScan ==
    /\ pc = "morton_count_scan"
    /\ \E items \in {MortonScanItems} :
         \E outcomes \in {[b \in BoxSlots |-> MortonBoxOutcomes(items, b)]} :
           /\ morton_nrs' = [i \in Particles |->
                                LevelMortonNumber(user_srcntgt_ids[i], level)]
           /\ morton_bin_counts' = items
           /\ box_morton_bin_counts' \in ArraysFrom(outcomes, nboxes_guess)
    /\ pc' = "split_box_id_scan"
    /\ UNCHANGED <<inputs, level, nboxes, nboxes_guess, prev_nboxes,
                   have_oversize_split_box, user_srcntgt_ids, srcntgt_box_ids,
                   box_start_flags, split_box_ids, box_records,
                   box_has_children, prune_vars, tree_vars>>


\* ---------------------------------------------------- split box id scan

\* box_refine_weight = add_sat(box_refine_weight, ...pwt<mnr>), mnr ascending
RECURSIVE BoxRefineWeightUpTo(_, _)
BoxRefineWeightUpTo(counts, k) ==
    IF k = 0 THEN 0
    ELSE my_add_sat(BoxRefineWeightUpTo(counts, k - 1), counts.pwt[k - 1])

BoxRefineWeight(box_id) ==
    BoxRefineWeightUpTo(box_morton_bin_counts[box_id], NChildren)

NonchildSrcntgtsInBox(box_id) ==
    IF srcntgts_have_extent
    THEN box_morton_bin_counts[box_id].nonchild_srcntgts
    ELSE 0

\* (variant: every non-empty box passes the test, whatever the mode)
SplitTest_nonempty(box_id) == box_srcntgt_counts_cumul[box_id] > 0

\* The refinement test of count_new_boxes_needed, without `i == first particle`.
SplitTest(box_id) ==
    IF adaptive
    THEN BoxRefineWeight(box_id) > max_leaf_refine_weight
    ELSE box_srcntgt_counts_cumul[box_id] - NonchildSrcntgtsInBox(box_id) > 0

\* (variant: boxes of all earlier levels get to produce new boxes)
AsksForNewBoxes_any_level(i, box_id) ==
    i = box_srcntgt_starts[box_id] /\ SplitTest(box_id)

\* Does lane i ask for 2^d new boxes for box_id?
AsksForNewBoxes(i, box_id) ==
    /\ i = box_srcntgt_starts[box_id]
    /\ srcntgts_have_extent => box_levels[box_id] + 1 = level
    /\ SplitTest(box_id)

\* (variant: the first particle does not start at the previous nboxes)
count_new_boxes_needed_no_seed(i, box_id) ==
    IF AsksForNewBoxes(i, box_id) THEN NChildren ELSE 0

\* `result` is a scan_t, that is a box_id_t
count_new_boxes_needed(i, box_id) ==
    box_id_t((IF i = 0 THEN nboxes ELSE 0)
             + (IF AsksForNewBoxes(i, box_id) THEN NChildren ELSE 0))

\* scan_expr "a + b" of the scan, whose scan_t is box_id_t
box_id_add(a, b) == box_id_t(a + b)

\* scan_expr over input_expr, inclusive: item[i]
RECURSIVE SplitBoxIdScanItem(_)
SplitBoxIdScanItem(i) ==
    IF i = 0 THEN count_new_boxes_needed(0, srcntgt_box_ids[0])
    ELSE box_id_add(SplitBoxIdScanItem(i - 1),
                    count_new_boxes_needed(i, srcntgt_box_ids[i]))

SplitBoxIdScanItems == [i \in Particles |-> SplitBoxIdScanItem(i)]

\* Boxes whose box_has_children is set as a side effect of the scan input.
NewlySplitBoxes ==
    {b \in BoxSlots :
        \E i \in Particles : srcntgt_box_ids[i] = b /\ AsksForNewBoxes(i, b)}

\* The driver doubles the box array allocation until it holds nboxes_new.
RECURSIVE GrownGuess(_, _)
GrownGuess(guess, nboxes_new) ==
    IF guess >= nboxes_new THEN guess ELSE GrownGuess(2 * guess, nboxes_new)

SplitBoxIdScan ==
    /\ pc = "split_box_id_scan"
    /\ \E items \in {SplitBoxIdScanItems} :
         \E guess \in {GrownGuess(nboxes_guess, items[N - 1])} :
           /\ split_box_ids' = items
           /\ nboxes' = items[N - 1]
           /\ prev_nboxes' = nboxes
           /\ nboxes_guess' = guess
           /\ box_has_children' =
                  Extend([b \in BoxSlots |->
                             IF b \in NewlySplitBoxes THEN 1
                             ELSE box_has_children[b]], guess, 0)
           /\ box_srcntgt_starts' = Extend(box_srcntgt_starts, guess, 0)
           /\ box_srcntgt_counts_cumul' =
                  Extend(box_srcntgt_counts_cumul, guess, 0)
           /\ box_parent_ids' = Extend(box_parent_ids, guess, 0)
           /\ box_morton_nrs' = Extend(box_morton_nrs, guess, 0)
           /\ box_levels' = Extend(box_levels, guess, 0)
           /\ box_morton_bin_counts' =
                  Extend(box_morton_bin_counts, guess, scan_t_neutral)
    /\ pc' = "split_and_sort"
    /\ UNCHANGED <<inputs, level, have_oversize_split_box, user_srcntgt_ids,
                   srcntgt_box_ids, box_start_flags, morton_nrs,
                   morton_bin_counts, prune_vars, tree_vars>>


\* --------------------------------------------------------- split and sort

do_split_box(i) ==
    LET ibox == srcntgt_box_ids[i]
    IN  /\ box_has_children[ibox] = 1
        /\ srcntgts_have_extent => box_levels[ibox] + 1 = level

get_count(counts, morton_nr) ==
    IF srcntgts_have_extent /\ morton_nr = -1
    THEN counts.nonchild_srcntgts
    ELSE counts.pcnt[morton_nr]

my_count(i) == get_count(morton_bin_counts[i], morton_nrs[i])

\* Sum of the box's pcnt fields of the Morton numbers below morton_nr.
PcntBelow(counts, morton_nr) ==
    SumOver(counts.pcnt, {m \in MortonNrs : m < morton_nr})

\* (variant: the counts of the lower Morton bins are not added)
tgt_particle_idx_no_bins(i) ==
    LET ibox == srcntgt_box_ids[i]
        my_box_morton_bin_counts == box_morton_bin_counts[ibox]
    IN  box_srcntgt_starts[ibox] + my_count(i) - 1
        + (IF srcntgts_have_extent /\ morton_nrs[i] >= 0
           THEN my_box_morton_bin_counts.nonchild_srcntgts ELSE 0)

\* tgt_particle_idx of a lane whose box splits.
tgt_particle_idx(i) ==
    LET ibox == srcntgt_box_ids[i]
        my_box_morton_bin_counts == box_morton_bin_counts[ibox]
    IN  box_srcntgt_starts[ibox] + my_count(i) - 1
        + (IF srcntgts_have_extent /\ morton_nrs[i] >= 0
           THEN my_box_morton_bin_counts.nonchild_srcntgts ELSE 0)
        + PcntBelow(my_box_morton_bin_counts, morton_nrs[i])

\* (variant: the ids of the box's 2^d children are not stepped back over)
new_box_id_no_step_back(i) ==
    IF srcntgts_have_extent /\ morton_nrs[i] = -1
    THEN srcntgt_box_ids[i]
    ELSE split_box_ids[i] + morton_nrs[i]

\* new_box_id of a lane whose box splits, a box_id_t.
new_box_id(i) ==
    IF srcntgts_have_extent /\ morton_nrs[i] = -1
    THEN srcntgt_box_ids[i]
    ELSE box_id_t(split_box_ids[i] - NChildren + morton_nrs[i])

\* (variant: every particle of a Morton bin sets up the child box)
IsLastInMortonBin_any(i) == morton_nrs[i] \in MortonNrs

\* "Am I the last particle in my Morton bin?"
IsLastInMortonBin(i) ==
    /\ morton_nrs[i] \in MortonNrs
    /\ box_morton_bin_counts[srcntgt_box_ids[i]].pcnt[morton_nrs[i]] = my_count(i)

\* (variant: the non-child particles are not skipped)
new_box_start_no_nonchild(i) ==
    LET ibox == srcntgt_box_ids[i]
        my_box_morton_bin_counts == box_morton_bin_counts[ibox]
    IN  box_srcntgt_starts[ibox]
        + PcntBelow(my_box_morton_bin_counts, morton_nrs[i])

new_box_start(i) ==
    LET ibox == srcntgt_box_ids[i]
        my_box_morton_bin_counts == box_morton_bin_counts[ibox]
    IN  box_srcntgt_starts[ibox]
        + (IF srcntgts_have_extent
           THEN my_box_morton_bin_counts.nonchild_srcntgts ELSE 0)
        + PcntBelow(my_box_morton_bin_counts, morton_nrs[i])

new_count(i) == box_morton_bin_counts[srcntgt_box_ids[i]].pcnt[morton_nrs[i]]

new_weight(i) == box_morton_bin_counts[srcntgt_box_ids[i]].pwt[morton_nrs[i]]

\* (variant: a child is oversize only from two above the threshold)
IsOversize_off_by_one(i) == new_weight(i) > max_leaf_refine_weight + 1

\* "This drives the level loop."
IsOversize(i) == new_weight(i) > max_leaf_refine_weight

\* Where lane i stores its particle, and the box id it stores there.
DestinationIdx(i) == IF do_split_box(i) THEN tgt_particle_idx(i) ELSE i

DestinationBoxId(i) == IF do_split_box(i) THEN new_box_id(i) ELSE srcntgt_box_ids[i]

\* The lanes that set up a child box record, and those writing box b's.
ChildBoxWriters == {i \in Particles : do_split_box(i) /\ IsLastInMortonBin(i)}

BoxRecordWriters(b) == {i \in ChildBoxWriters : new_box_id(i) = b}

\* What slot s of a freshly allocated output array may hold after the pass;
\* value[i] is what lane i stores.
SlotOutcomes(s, value, unwritten) ==
    LET writers == {i \in Particles : DestinationIdx(i) = s}
    IN  IF writers = {} THEN unwritten ELSE {value[i] : i \in writers}

\* What a field of box b's record may hold after the pass: the value of any
\* lane setting up the record, or the old value `kept` if no lane does.
\* value[i] is what lane i stores.
BoxRecordOutcomes(b, value, kept) ==
    LET writers == BoxRecordWriters(b)
    IN  IF writers = {} THEN {kept} ELSE {value[i] : i \in writers}

\* The driver after a level: stop when the flag is clear, else go one level
\* down, and give up when that passes the level bound.
\* (variant: the level is never advanced)
LevelAfter_stuck(lvl, oversize) == lvl

LevelAfter(lvl, oversize) == IF oversize THEN lvl + 1 ELSE lvl

PcAfter(lvl, oversize) ==
    IF ~oversize THEN "done"
    ELSE IF lvl + 1 > MaxLevel THEN "failed" ELSE "morton_count_scan"

SplitAndSort ==
    /\ pc = "split_and_sort"
    /\ \E ids \in {[s \in Particles |->
                       SlotOutcomes(s, user_srcntgt_ids, Particles)]} :
           user_srcntgt_ids' \in ArraysFrom(ids, N)
    /\ \E tgt \in {[i \in Particles |-> DestinationBoxId(i)]} :
         \E ids \in {[s \in Particles |->
                         SlotOutcomes(s, tgt, 0 .. nboxes - 1)]} :
           srcntgt_box_ids' \in ArraysFrom(ids, N)
    /\ box_start_flags' =
           [s \in Particles |->
               IF \E i \in ChildBoxWriters : new_box_start(i) = s
               THEN 1 ELSE box_start_flags[s]]
    /\ \E start \in {[i \in ChildBoxWriters |-> new_box_start(i)]} :
         \E f \in {[b \in BoxSlots |->
                       BoxRecordOutcomes(b, start, box_srcntgt_starts[b])]} :
           box_srcntgt_starts' \in ArraysFrom(f, nboxes_guess)
    /\ \E f \in {[b \in BoxSlots |->
                     BoxRecordOutcomes(b, srcntgt_box_ids, box_parent_ids[b])]} :
           box_parent_ids' \in ArraysFrom(f, nboxes_guess)
    /\ \E f \in {[b \in BoxSlots |->
                     BoxRecordOutcomes(b, morton_nrs, box_morton_nrs[b])]} :
           box_morton_nrs' \in ArraysFrom(f, nboxes_guess)
    /\ \E count \in {[i \in ChildBoxWriters |-> new_count(i)]} :
         \E f \in {[b \in BoxSlots |->
                       BoxRecordOutcomes(b, count,
                                         box_srcntgt_counts_cumul[b])]} :
           box_srcntgt_counts_cumul' \in ArraysFrom(f, nboxes_guess)
    /\ \E f \in {[b \in BoxSlots |->
                     BoxRecordOutcomes(b, [i \in Particles |-> level],
                                       box_levels[b])]} :
           box_levels' \in ArraysFrom(f, nboxes_guess)
    /\ have_oversize_split_box' =
           (IF \E i \in ChildBoxWriters : IsOversize(i)
            THEN 1 ELSE have_oversize_split_box)
    /\ pc' = "level_loop_tail"
    /\ UNCHANGED <<inputs, level, nboxes, nboxes_guess, prev_nboxes,
                   morton_nrs, morton_bin_counts, split_box_ids,
                   box_has_children, box_morton_bin_counts, prune_vars,
                   tree_vars>>

\* The driver after the realization pass of a level: it reads the flag the
\* pass may have set, ends the loop or goes one level down, and clears the
\* flag for the next pass.
LevelLoopTail ==
    /\ pc = "level_loop_tail"
    /\ \E oversize \in {have_oversize_split_box # 0} :
           /\ level' = LevelAfter(level, oversize)
           /\ pc' = PcAfter(level, oversize)
    /\ have_oversize_split_box' = 0
    /\ UNCHANGED <<inputs, nboxes, nboxes_guess, prev_nboxes, particle_arrays,
                   box_records, box_has_children, box_morton_bin_counts,
                   prune_vars, tree_vars>>

\* ----------------------------------------------------------------- driver

\* The states of the level loop.
State ==
    CASE pc \in {"morton_count_scan", "split_box_id_scan"} -> "SCANNING"
      [] pc \in {"split_and_sort", "level_loop_tail"} -> "REALIZING"
      [] pc = "done" -> "DONE"
      [] pc = "failed" -> "FAILED"
      [] OTHER -> "PRUNING"

\* Before the passes that follow the level loop have run, their arrays are
\* not allocated.
TreeVarsUnset ==
    /\ sources_are_targets = TRUE
    /\ nsources = 0
    /\ box_srcntgt_counts_nonchild = Zeros(0)
    /\ source_numbers = Zeros(0)
    /\ user_source_ids = Zeros(0)
    /\ srcntgt_target_ids = Zeros(0)
    /\ sorted_target_ids = Zeros(0)
    /\ box_source_starts = Zeros(0)
    /\ box_source_counts_cumul = Zeros(0)
    /\ box_target_starts = Zeros(0)
    /\ box_target_counts_cumul = Zeros(0)
    /\ box_source_counts_nonchild = Zeros(0)
    /\ box_target_counts_nonchild = Zeros(0)
    /\ box_child_ids = Zeros(0)
    /\ box_centers = Zeros(0)
    /\ box_flags = Zeros(0)
    /\ tree_order_flags = Zeros(0)
    /\ filtered_from_unfiltered_target_index = Zeros(0)
    /\ unfiltered_from_filtered_target_index = Zeros(0)
    /\ nfiltered_targets = 0
    /\ box_target_starts_filtered = Zeros(0)
    /\ box_target_counts_nonchild_filtered = Zeros(0)

\* The bounding box [0, GridSize)^d.
CubeBBox ==
    [min |-> [ax \in Axes |-> 0], max |-> [ax \in Axes |-> GridSize]]

\* Bounding boxes whose minimum and extent differ from axis to axis.
PlaneExtents == {GridSize \div 2, GridSize}

PlaneBBoxes ==
    {[min |-> lo, max |-> [ax \in Axes |-> lo[ax] + extent[ax]]] :
        lo \in [Axes -> 0 .. MaxBoxMin], extent \in [Axes -> PlaneExtents]}

\* The lattice points inside a bounding box, whose top no coordinate
\* reaches.
PointsIn(box) ==
    {x \in [Axes -> 0 .. MaxBoxMin + GridSize - 1] :
        \A ax \in Axes : box.min[ax] <= x[ax] /\ x[ax] < box.max[ax]}

\* The state a build in `dims` dimensions starts in: the bounding box is one
\* of `boxes`, the number of particles one of `sizes` and the refine weights
\* are drawn from `weights`.
InitBuild(dims, cube, sizes, weights) ==
    /\ dimensions = dims
    /\ bbox \in IF cube THEN {CubeBBox} ELSE PlaneBBoxes
    /\ N \in sizes
    /\ coords \in [0 .. N - 1 -> PointsIn(bbox)]
    /\ srcntgts_have_extent \in BOOLEAN
    /\ srcntgt_radii \in [0 .. N - 1 ->
                             IF srcntgts_have_extent THEN 0 .. MaxRadius ELSE {0}]
    /\ stick_out_factor \in
           IF srcntgts_have_extent THEN 0 .. MaxStickOut ELSE {0}
    /\ refine_weights \in [0 .. N - 1 -> weights]
    /\ max_leaf_refine_weight \in 1 .. MaxLeafWeight
    /\ adaptive \in BOOLEAN
    /\ pc = "morton_count_scan"
    /\ level = 1
    /\ nboxes = 1
    /\ nboxes_guess = NChildren
    /\ prev_nboxes = 1
    /\ have_oversize_split_box = 0
    /\ user_srcntgt_ids = [i \in 0 .. N - 1 |-> i]
    /\ srcntgt_box_ids = Zeros(N)
    /\ box_start_flags = Zeros(N)
    /\ morton_nrs = Zeros(N)
    /\ morton_bin_counts = [i \in 0 .. N - 1 |-> scan_t_neutral]
    /\ split_box_ids = Zeros(N)
    /\ box_srcntgt_starts = Zeros(NChildren)
    /\ box_srcntgt_counts_cumul = [b \in 0 .. NChildren - 1 |->
                                      IF b = 0 THEN N ELSE 0]
    /\ box_parent_ids = Zeros(NChildren)
    /\ box_morton_nrs = Zeros(NChildren)
    /\ box_levels = Zeros(NChildren)
    /\ box_has_children = Zeros(NChildren)
    /\ box_morton_bin_counts = [b \in 0 .. NChildren - 1 |-> scan_t_neutral]
    /\ to_box_id = Zeros(0)
    /\ from_box_id = Zeros(0)
    /\ nboxes_post_prune = 0
    /\ TreeVarsUnset

\* The builds on a line, over the bounding box [0, GridSize).
InitWith(weights) == InitBuild(LineDimensions, TRUE, 1 .. MaxN, weights)

Init == InitWith(0 .. MaxWeight)

Next == MortonCountScan \/ SplitBoxIdScan \/ SplitAndSort \/ LevelLoopTail

Spec == Init /\ [][Next]_vars

\* The level loop of builds in the plane, over bounding boxes whose minimum
\* and extent differ from axis to axis.
InitPlane == InitBuild(PlaneDimensions, FALSE, 1 .. PlaneN, 0 .. MaxWeight)

SpecPlane == InitPlane /\ [][Next]_vars

\* The driver runs one pass after the other until the loop ends.
SpecFair == Spec /\ WF_vars(Next)

\* Builds over N > 1 particles that all sit at one location.
InitCoincident ==
    /\ Init
    /\ N > 1
    /\ \A i, j \in 0 .. N - 1 : coords[i] = coords[j]

SpecCoincident == InitCoincident /\ [][Next]_vars /\ WF_vars(Next)

\* Builds in which some refine weights are so large that the weight sums of
\* the Morton scan reach INT_MAX.
HeavyWeights == {1, INT_MAX - 1, INT_MAX}

InitSaturate ==
    /\ InitWith(HeavyWeights)
    /\ adaptive
    /\ max_leaf_refine_weight = MaxLeafWeight
    /\ \E i \in 0 .. N - 1 : refine_weights[i] >= INT_MAX - 1

SpecSaturate == InitSaturate /\ [][Next]_vars

\* A tree that coincident point particles have driven deep: after k levels
\* the particles sit in one box of level k and there are 1 + 2^d * k boxes.
\* ChainMorton(j) is the Morton number the particles got at level j.
ChainMorton(j) == MortonBitsOf(0, j)

ChainBox(j) == IF j = 0 THEN 0 ELSE NChildren * (j - 1) + 1 + ChainMorton(j)

ChainLevelOf(b) == IF b = 0 THEN 0 ELSE (b - 1) \div NChildren + 1

ChainCounts(count, weight, j) ==
    [nonchild_srcntgts |-> 0,
     pcnt |-> [m \in MortonNrs |-> IF m = ChainMorton(j) THEN count ELSE 0],
     pwt |-> [m \in MortonNrs |-> IF m = ChainMorton(j) THEN weight ELSE 0]]

DeepestChain == (BoxIdMax - 1) \div NChildren

\* The state of the build after k levels, k being one of `depths`, before
\* the pass `next_pass` of level k + 1: its Morton scan, or its
\* split-decision scan, the Morton bin counts of level k + 1 being in.
InitChain(depths, next_pass) ==
    /\ dimensions = LineDimensions
    /\ bbox = CubeBBox
    /\ N \in 1 .. MaxN
    /\ coords \in {f \in [0 .. N - 1 -> PointsIn(bbox)] :
                      \A i \in 0 .. N - 1 : f[i] = f[0]}
    /\ srcntgts_have_extent = FALSE
    /\ srcntgt_radii = Zeros(N)
    /\ stick_out_factor = 0
    /\ refine_weights \in [0 .. N - 1 -> 0 .. MaxWeight]
    /\ max_leaf_refine_weight \in 1 .. MaxLeafWeight
    /\ SumOver(refine_weights, 0 .. N - 1) > max_leaf_refine_weight
    /\ adaptive \in BOOLEAN
    /\ pc = next_pass
    /\ \E k \in depths :
         \E scanned \in {IF next_pass = "morton_count_scan"
                         THEN k ELSE k + 1} :
         \E weight \in {SumOver(refine_weights, 0 .. N - 1)} :
         \E guess \in {GrownGuess(NChildren, 1 + NChildren * k)} :
           /\ level = k + 1
           /\ nboxes = 1 + NChildren * k
           /\ nboxes_guess = guess
           /\ prev_nboxes = 1 + NChildren * (k - 1)
           /\ srcntgt_box_ids = [i \in 0 .. N - 1 |-> ChainBox(k)]
           /\ morton_nrs = [i \in 0 .. N - 1 |-> ChainMorton(scanned)]
           /\ morton_bin_counts =
                  [i \in 0 .. N - 1 |->
                      ChainCounts(i + 1,
                                  SumOver(refine_weights, 0 .. i), scanned)]
           /\ split_box_ids = [i \in 0 .. N - 1 |-> 1 + NChildren * k]
           /\ box_srcntgt_starts = Zeros(guess)
           /\ box_srcntgt_counts_cumul =
                  [b \in 0 .. guess - 1 |->
                      IF b < nboxes /\ b = ChainBox(ChainLevelOf(b))
                      THEN N ELSE 0]
           /\ box_parent_ids =
                  [b \in 0 .. guess - 1 |->
                      IF 0 < b /\ b < nboxes /\ b = ChainBox(ChainLevelOf(b))
                      THEN ChainBox(ChainLevelOf(b) - 1) ELSE 0]
           /\ box_morton_nrs =
                  [b \in 0 .. guess - 1 |->
                      IF 0 < b /\ b < nboxes /\ b = ChainBox(ChainLevelOf(b))
                      THEN ChainMorton(ChainLevelOf(b)) ELSE 0]
           /\ box_levels =
                  [b \in 0 .. guess - 1 |->
                      IF 0 < b /\ b < nboxes /\ b = ChainBox(ChainLevelOf(b))
                      THEN ChainLevelOf(b) ELSE 0]
           /\ box_has_children =
                  [b \in 0 .. guess - 1 |->
                      IF b < nboxes /\ b = ChainBox(ChainLevelOf(b))
                             /\ ChainLevelOf(b) < k
                      THEN 1 ELSE 0]
           /\ box_morton_bin_counts =
                  [b \in 0 .. guess - 1 |->
                      IF b < nboxes /\ b = ChainBox(ChainLevelOf(b))
                             /\ ChainLevelOf(b) < scanned
                      THEN ChainCounts(N, weight, ChainLevelOf(b) + 1)
                      ELSE scan_t_neutral]
    /\ have_oversize_split_box = 0
    /\ user_srcntgt_ids = [i \in 0 .. N - 1 |-> i]
    /\ box_start_flags = [i \in 0 .. N - 1 |-> IF i = 0 THEN 1 ELSE 0]
    /\ to_box_id = Zeros(0)
    /\ from_box_id = Zeros(0)
    /\ nboxes_post_prune = 0
    /\ TreeVarsUnset

\* The split-decision scan and the realization pass on a tree so deep that
\* the box ids are about to run out.
InitOverflow ==
    InitChain(DeepestChain - OverflowDepths + 1 .. DeepestChain,
              "split_box_id_scan")

NextOverflow == SplitBoxIdScan \/ SplitAndSort

SpecOverflow == InitOverflow /\ [][NextOverflow]_vars

\* The passes of one level on a tree as deep as the shift of 1U << level is
\* wide: the levels ShiftWidth .. ShiftWidth + DeepLevels - 1 are built.
InitDeep ==
    InitChain(ShiftWidth - 1 .. ShiftWidth + DeepLevels - 2,
              "morton_count_scan")

NextDeep == MortonCountScan \/ SplitBoxIdScan \/ SplitAndSort

SpecDeep == InitDeep /\ [][NextDeep]_vars



\* ------------------------------------------------------ empty-box pruning

\* (variant: the non-empty boxes are counted instead of the empty ones)
PruneInput_inverted(i) == IF box_srcntgt_counts_cumul[i] = 0 THEN 0 ELSE 1

\* input_expr: box_srcntgt_counts_cumul[i] == 0 ? 1 : 0
PruneInput(i) == IF box_srcntgt_counts_cumul[i] = 0 THEN 1 ELSE 0

\* scan_expr "a+b", neutral "0": item[i] of the inclusive scan over the boxes
RECURSIVE PruneScanItem(_)
PruneScanItem(i) ==
    IF i = 0 THEN PruneInput(0) ELSE PruneScanItem(i - 1) + PruneInput(i)

PruneScanItems == [i \in 0 .. nboxes - 1 |-> PruneScanItem(i)]

prev_item(items, i) == IF i = 0 THEN 0 ELSE items[i - 1]

\* (variant: the inclusive scan item is subtracted)
PrunedBoxId_inclusive(items, i) == i - items[i]

\* to_box_id[i] = i-prev_item
PrunedBoxId(items, i) == i - prev_item(items, i)

\* if (box_srcntgt_counts_cumul[i]) from_box_id[i-prev_item] = i;
\* a slot no lane writes keeps whatever the allocation held.
FromBoxIdOutcomes(items, s) ==
    LET writers == {i \in 0 .. nboxes - 1 :
                       box_srcntgt_counts_cumul[i] # 0 /\ PrunedBoxId(items, i) = s}
    IN  IF writers = {} THEN 0 .. nboxes - 1 ELSE writers

FindPruneIndices ==
    /\ pc = "find_prune_indices"
    /\ nboxes > 0
    /\ \E items \in {PruneScanItems} :
         \E outcomes \in {[s \in 0 .. nboxes - 1 |->
                              FromBoxIdOutcomes(items, s)]} :
           /\ to_box_id' = [i \in 0 .. nboxes - 1 |-> PrunedBoxId(items, i)]
           /\ from_box_id' \in ArraysFrom(outcomes, nboxes)
           /\ nboxes_post_prune' = nboxes - items[nboxes - 1]
    /\ pc' = "prune_boxes"
    /\ UNCHANGED <<inputs, level, nboxes, nboxes_guess, prev_nboxes,
                   have_oversize_split_box, particle_arrays, box_records,
                   box_has_children, box_morton_bin_counts, tree_vars>>

\* The driver compacts the box arrays through from_box_id; arrays that hold
\* box ids have their values mapped through to_box_id.
PruneBoxes ==
    /\ pc = "prune_boxes"
    /\ \E kept \in {0 .. nboxes_post_prune - 1} :
           /\ box_srcntgt_starts' =
                  [j \in kept |-> box_srcntgt_starts[from_box_id[j]]]
           /\ box_srcntgt_counts_cumul' =
                  [j \in kept |-> box_srcntgt_counts_cumul[from_box_id[j]]]
           /\ box_parent_ids' =
                  [j \in kept |-> to_box_id[box_parent_ids[from_box_id[j]]]]
           /\ box_morton_nrs' = [j \in kept |-> box_morton_nrs[from_box_id[j]]]
           /\ box_levels' = [j \in kept |-> box_levels[from_box_id[j]]]
           /\ box_has_children' =
                  [j \in kept |-> box_has_children[from_box_id[j]]]
           /\ box_morton_bin_counts' =
                  [j \in kept |-> box_morton_bin_counts[from_box_id[j]]]
    /\ srcntgt_box_ids' = [i \in Particles |-> to_box_id[srcntgt_box_ids[i]]]
    /\ nboxes' = nboxes_post_prune
    /\ nboxes_guess' = nboxes_post_prune
    /\ pc' = "find_prune_indices"
    /\ UNCHANGED <<inputs, level, prev_nboxes, have_oversize_split_box,
                   user_srcntgt_ids, box_start_flags, morton_nrs,
                   morton_bin_counts, split_box_ids, prune_vars, tree_vars>>

\* The prune scan applied to an arbitrary array of per-box particle counts.
InitPrune ==
    /\ nboxes \in 1 .. MaxPruneBoxes
    /\ nboxes_guess = nboxes
    /\ box_srcntgt_counts_cumul \in [0 .. nboxes - 1 -> 0 .. MaxPruneCount]
    /\ box_parent_ids \in {f \in [0 .. nboxes - 1 -> 0 .. nboxes - 1] :
                              \A b \in 0 .. nboxes - 1 :
                                  f[b] < b \/ (b = 0 /\ f[b] = 0)}
    /\ pc = "find_prune_indices"
    /\ dimensions = LineDimensions
    /\ bbox = CubeBBox
    /\ N = 0
    /\ coords = Zeros(0)
    /\ srcntgt_radii = Zeros(0)
    /\ refine_weights = Zeros(0)
    /\ max_leaf_refine_weight = 1
    /\ stick_out_factor = 0
    /\ adaptive = TRUE
    /\ srcntgts_have_extent = FALSE
    /\ level = 0
    /\ prev_nboxes = nboxes
    /\ have_oversize_split_box = 0
    /\ user_srcntgt_ids = Zeros(0)
    /\ srcntgt_box_ids = Zeros(0)
    /\ box_start_flags = Zeros(0)
    /\ morton_nrs = Zeros(0)
    /\ morton_bin_counts = Zeros(0)
    /\ split_box_ids = Zeros(0)
    /\ box_srcntgt_starts = Zeros(nboxes)
    /\ box_morton_nrs = Zeros(nboxes)
    /\ box_levels = Zeros(nboxes)
    /\ box_has_children = Zeros(nboxes)
    /\ box_morton_bin_counts = [b \in 0 .. nboxes - 1 |-> scan_t_neutral]
    /\ to_box_id = Zeros(0)
    /\ from_box_id = Zeros(0)
    /\ nboxes_post_prune = 0
    /\ TreeVarsUnset

NextPrune == FindPruneIndices \/ PruneBoxes

SpecPrune == InitPrune /\ [][NextPrune]_vars


\* ------------------------------------------------------------ tree queries

\* The tree is at rest between the realization pass of one level and the
\* split-decision scan of the next.
TreeAtRest ==
    pc \in {"level_loop_tail", "morton_count_scan", "split_box_id_scan",
            "done", "failed"}

Terminal == pc \in {"done", "failed"}

Boxes == 0 .. nboxes - 1

BoxRange(b) ==
    box_srcntgt_starts[b] ..
        box_srcntgt_starts[b] + box_srcntgt_counts_cumul[b] - 1

\* The non-empty boxes created as children of p.
ChildBoxes(p) ==
    {b \in Boxes : b # p /\ box_parent_ids[b] = p
                   /\ box_srcntgt_counts_cumul[b] > 0}

\* The slots holding particles assigned to box b itself.
OwnSlots(b) == {i \in Particles : srcntgt_box_ids[i] = b}

\* The leading slots of p, which hold its non-child particles.
NonchildRange(p) ==
    box_srcntgt_starts[p] ..
        box_srcntgt_starts[p] + NonchildSrcntgtsInBox(p) - 1

IsLeaf(b) == box_has_children[b] = 0 /\ box_srcntgt_counts_cumul[b] > 0

\* ------------------------------------------- passes after the level loop

\* The level loop is over and the boxes are pruned, or pruning is skipped.
ReadyForTree ==
    /\ N > 0
    /\ pc = "done" \/ (pc = "find_prune_indices" /\ DOMAIN to_box_id # {})

\* The driver goes on to prune the empty boxes.
StartPrune ==
    /\ pc = "done"
    /\ pc' = "find_prune_indices"
    /\ UNCHANGED <<inputs, level, nboxes, nboxes_guess, prev_nboxes,
                   have_oversize_split_box, particle_arrays, box_records,
                   box_has_children, box_morton_bin_counts, prune_vars,
                   tree_vars>>

\* The driver prunes a tree once.
PruneOnce == FindPruneIndices /\ DOMAIN to_box_id = {}

\* The first box of the last level, in the box numbering in force.
highest_possibly_split_box_nr ==
    IF pc = "done" THEN prev_nboxes
    ELSE Cardinality({j \in 0 .. nboxes - 1 : from_box_id[j] < prev_nboxes})

\* box_srcntgt_counts_nonchild[i] as extract_nonchild_srcntgt_count sets it
ExtractedNonchildCount(i) ==
    IF i >= highest_possibly_split_box_nr THEN 0
    ELSE IF box_srcntgt_counts_cumul[i] = 0 THEN 0
    ELSE box_morton_bin_counts[i].nonchild_srcntgts

ExtractNonchildSrcntgtCount ==
    /\ ReadyForTree
    /\ srcntgts_have_extent
    /\ box_srcntgt_counts_nonchild' =
           [i \in Boxes |-> ExtractedNonchildCount(i)]
    /\ pc' = "extracted"
    /\ UNCHANGED <<inputs, level, nboxes, nboxes_guess, prev_nboxes,
                   have_oversize_split_box, particle_arrays, box_records,
                   box_has_children, box_morton_bin_counts, prune_vars,
                   source_target_vars, nonchild_counts, box_info_vars,
                   filter_vars>>

\* A box center, as the fraction num / den of exact arithmetic.
ZeroCenter == [num |-> 0, den |-> 1]

\* The driver allocates the outputs of the box info pass, zero-filled.
AllocateBoxInfoOutputs ==
    /\ box_child_ids' = [m \in MortonNrs |-> Zeros(nboxes)]
    /\ box_centers' = [idim \in Axes |-> [b \in Boxes |-> ZeroCenter]]
    /\ box_flags' = [b \in Boxes |-> {}]

ReadyToSplitSourcesAndTargets ==
    pc = "extracted" \/ (ReadyForTree /\ ~srcntgts_have_extent)

\* Sources and targets are the same particles: the driver hands the
\* srcntgt arrays out under both names.  The array it hands out as
\* sorted_target_ids in this case is built by none of the kernels and is
\* left out.
UseSrcntgtsAsSourcesAndTargets ==
    /\ ReadyToSplitSourcesAndTargets
    /\ sources_are_targets' = TRUE
    /\ nsources' = N
    /\ box_source_starts' = [b \in Boxes |-> box_srcntgt_starts[b]]
    /\ box_target_starts' = [b \in Boxes |-> box_srcntgt_starts[b]]
    /\ box_source_counts_cumul' = [b \in Boxes |-> box_srcntgt_counts_cumul[b]]
    /\ box_target_counts_cumul' = [b \in Boxes |-> box_srcntgt_counts_cumul[b]]
    /\ box_source_counts_nonchild' =
           IF srcntgts_have_extent THEN box_srcntgt_counts_nonchild
           ELSE Zeros(nboxes)
    /\ box_target_counts_nonchild' = box_source_counts_nonchild'
    /\ user_source_ids' = user_srcntgt_ids
    /\ AllocateBoxInfoOutputs
    /\ pc' = "box_info"
    /\ UNCHANGED <<inputs, level, nboxes, nboxes_guess, prev_nboxes,
                   have_oversize_split_box, particle_arrays, box_records,
                   box_has_children, box_morton_bin_counts, prune_vars,
                   box_srcntgt_counts_nonchild, source_numbers,
                   srcntgt_target_ids, sorted_target_ids, filter_vars>>

\* the targets counted in place of the sources
SourceCounterInput_targets(i, ns) == IF user_srcntgt_ids[i] < ns THEN 0 ELSE 1

\* input_expr of source_counter, for the user ids below ns being sources
SourceCounterInput(i, ns) == IF user_srcntgt_ids[i] < ns THEN 1 ELSE 0

\* source_numbers[i] = prev_item: the scan's item before lane i; the scan
\* adds in box_id_dtype
RECURSIVE SourceCounterPrevItem(_, _)
SourceCounterPrevItem(i, ns) ==
    IF i = 0 THEN 0
    ELSE box_id_t(SourceCounterPrevItem(i - 1, ns)
                      + SourceCounterInput(i - 1, ns))

\* Sources and targets are distinct: user ids below nsources are sources.
SourceCounter ==
    /\ ReadyToSplitSourcesAndTargets
    /\ \E ns \in 0 .. N :
           /\ nsources' = ns
           /\ source_numbers' =
                  [i \in Particles |-> SourceCounterPrevItem(i, ns)]
    /\ sources_are_targets' = FALSE
    /\ box_source_starts' = Zeros(nboxes)
    /\ box_source_counts_cumul' = Zeros(nboxes)
    /\ box_target_starts' = Zeros(nboxes)
    /\ box_target_counts_cumul' = Zeros(nboxes)
    /\ box_source_counts_nonchild' = Zeros(nboxes)
    /\ box_target_counts_nonchild' = Zeros(nboxes)
    /\ pc' = "find_source_and_target_indices"
    /\ UNCHANGED <<inputs, level, nboxes, nboxes_guess, prev_nboxes,
                   have_oversize_split_box, particle_arrays, box_records,
                   box_has_children, box_morton_bin_counts, prune_vars,
                   box_srcntgt_counts_nonchild, user_source_ids,
                   srcntgt_target_ids, sorted_target_ids, box_info_vars,
                   filter_vars>>

\* What a slot written by the lanes `writers` may hold after a parallel
\* pass, value[i] being what lane i stores: any of their values, or one of
\* `unwritten` if no lane stores to it.
ScatterOutcomes(writers, value, unwritten) ==
    IF writers = {} THEN unwritten ELSE {value[i] : i \in writers}

\* --------------------------------------- source and target index finder

\* The targets are the user ids from nsources on.
ntargets == N - nsources

\* tree.ntargets
NTargetsOfTree == IF sources_are_targets THEN N ELSE ntargets

is_source(i) == user_srcntgt_ids[i] < nsources

source_nr(i) == source_numbers[i]

\* the particle's tree-order index taken for its target number
target_nr_is_index(i) == i

\* target_nr = i - source_nr
target_nr(i) == i - source_numbers[i]

\* "first particle for this or the parents' boxes? update starts": the
\* boxes whose starts lane i stores, walking up from walk_box_id.
RECURSIVE StartWalkBoxes(_, _)
StartWalkBoxes(i, walk_box_id) ==
    IF i # box_srcntgt_starts[walk_box_id] THEN {}
    ELSE {walk_box_id} \cup
             (IF box_parent_ids[walk_box_id] = walk_box_id THEN {}
              ELSE StartWalkBoxes(i, box_parent_ids[walk_box_id]))

\* "last particle for this or the parents' boxes? update counts"
RECURSIVE CountWalkBoxes(_, _)
CountWalkBoxes(i, walk_box_id) ==
    IF i + 1 # box_srcntgt_starts[walk_box_id]
                   + box_srcntgt_counts_cumul[walk_box_id]
    THEN {}
    ELSE {walk_box_id} \cup
             (IF box_parent_ids[walk_box_id] = walk_box_id THEN {}
              ELSE CountWalkBoxes(i, box_parent_ids[walk_box_id]))

\* source_nr + is_source - box_start_source_nr, for a box starting at
\* walk_box_start
SourceCountUpTo(i, walk_box_start) ==
    source_nr(i) + (IF is_source(i) THEN 1 ELSE 0)
        - source_numbers[walk_box_start]

\* target_nr + 1 - is_source - box_start_target_nr
TargetCountUpTo(i, walk_box_start) ==
    target_nr(i) + 1 - (IF is_source(i) THEN 1 ELSE 0)
        - (walk_box_start - source_numbers[walk_box_start])

\* "last non-child particle?": the lanes storing box b's non-child counts
NonchildCountWriters(b) ==
    {i \in Particles :
        /\ srcntgts_have_extent
        /\ srcntgt_box_ids[i] = b
        /\ i + 1 = box_srcntgt_starts[b] + box_srcntgt_counts_nonchild[b]}

\* The lanes that store box b's starts, and those that store its counts.
StartWriters(b) ==
    {i \in Particles : b \in StartWalkBoxes(i, srcntgt_box_ids[i])}

CountWriters(b) ==
    {i \in Particles : b \in CountWalkBoxes(i, srcntgt_box_ids[i])}

\* The lanes that store slot k of user_source_ids, slot k of
\* srcntgt_target_ids, and slot u of sorted_target_ids.
UserSourceIdWriters(k) ==
    {i \in Particles : is_source(i) /\ source_nr(i) = k}

SrcntgtTargetIdWriters(k) ==
    {i \in Particles : ~is_source(i) /\ target_nr(i) = k}

SortedTargetIdWriters(u) ==
    {i \in Particles : ~is_source(i) /\ user_srcntgt_ids[i] - nsources = u}

FindSourceAndTargetIndices ==
    /\ pc = "find_source_and_target_indices"
    /\ \E start_writers \in {[b \in Boxes |-> StartWriters(b)]} :
         /\ \E f \in {[b \in Boxes |->
                         ScatterOutcomes(start_writers[b],
                                         [i \in Particles |-> source_nr(i)],
                                         {box_source_starts[b]})]} :
                box_source_starts' \in ArraysFrom(f, nboxes)
         /\ \E f \in {[b \in Boxes |->
                         ScatterOutcomes(start_writers[b],
                                         [i \in Particles |-> target_nr(i)],
                                         {box_target_starts[b]})]} :
                box_target_starts' \in ArraysFrom(f, nboxes)
    /\ \E count_writers \in {[b \in Boxes |-> CountWriters(b)]} :
         /\ \E f \in {[b \in Boxes |->
                         ScatterOutcomes(
                             count_writers[b],
                             [i \in Particles |->
                                 SourceCountUpTo(i, box_srcntgt_starts[b])],
                             {box_source_counts_cumul[b]})]} :
                box_source_counts_cumul' \in ArraysFrom(f, nboxes)
         /\ \E f \in {[b \in Boxes |->
                         ScatterOutcomes(
                             count_writers[b],
                             [i \in Particles |->
                                 TargetCountUpTo(i, box_srcntgt_starts[b])],
                             {box_target_counts_cumul[b]})]} :
                box_target_counts_cumul' \in ArraysFrom(f, nboxes)
    /\ \E f \in {[b \in Boxes |->
                    ScatterOutcomes(
                        NonchildCountWriters(b),
                        [i \in Particles |->
                            SourceCountUpTo(i, box_srcntgt_starts[b])],
                        {box_source_counts_nonchild[b]})]} :
           box_source_counts_nonchild' \in ArraysFrom(f, nboxes)
    /\ \E f \in {[b \in Boxes |->
                    ScatterOutcomes(
                        NonchildCountWriters(b),
                        [i \in Particles |->
                            TargetCountUpTo(i, box_srcntgt_starts[b])],
                        {box_target_counts_nonchild[b]})]} :
           box_target_counts_nonchild' \in ArraysFrom(f, nboxes)
    /\ \E f \in {[k \in 0 .. nsources - 1 |->
                    ScatterOutcomes(
                        UserSourceIdWriters(k),
                        user_srcntgt_ids, Particles)]} :
           user_source_ids' \in ArraysFrom(f, nsources)
    /\ \E f \in {[k \in 0 .. N - nsources - 1 |->
                    ScatterOutcomes(
                        SrcntgtTargetIdWriters(k),
                        user_srcntgt_ids, Particles)]} :
           srcntgt_target_ids' \in ArraysFrom(f, N - nsources)
    /\ \E f \in {[u \in 0 .. N - nsources - 1 |->
                    ScatterOutcomes(
                        SortedTargetIdWriters(u),
                        [i \in Particles |-> target_nr(i)],
                        0 .. N - nsources - 1)]} :
           sorted_target_ids' \in ArraysFrom(f, N - nsources)
    /\ AllocateBoxInfoOutputs
    /\ pc' = "box_info"
    /\ UNCHANGED <<inputs, level, nboxes, nboxes_guess, prev_nboxes,
                   have_oversize_split_box, particle_arrays, box_records,
                   box_has_children, box_morton_bin_counts, prune_vars,
                   box_srcntgt_counts_nonchild, sources_are_targets, nsources,
                   source_numbers, filter_vars>>

\* ------------------------------------------------------------- box info

BOX_HAS_OWN_SOURCES == "HAS_OWN_SOURCES"
BOX_HAS_OWN_TARGETS == "HAS_OWN_TARGETS"
BOX_HAS_CHILD_SOURCES == "HAS_CHILD_SOURCES"
BOX_HAS_CHILD_TARGETS == "HAS_CHILD_TARGETS"
BOX_HAS_CHILDREN == "HAS_CHILDREN"

particle_count(box_id) == box_srcntgt_counts_cumul[box_id]

nonchild_source_count(box_id) ==
    IF srcntgts_have_extent THEN box_source_counts_nonchild[box_id] ELSE 0

nonchild_target_count(box_id) ==
    IF srcntgts_have_extent THEN box_target_counts_nonchild[box_id] ELSE 0

nonchild_srcntgt_count(box_id) ==
    nonchild_source_count(box_id) + nonchild_target_count(box_id)

\* my_box_flags of a box that has children
NonLeafBoxFlags(box_id) ==
    {BOX_HAS_CHILDREN}
    \cup (IF sources_are_targets
          THEN IF particle_count(box_id) - nonchild_srcntgt_count(box_id) # 0
               THEN {BOX_HAS_CHILD_SOURCES, BOX_HAS_CHILD_TARGETS}
               ELSE {}
          ELSE (IF box_source_counts_cumul[box_id]
                       - nonchild_source_count(box_id) # 0
                THEN {BOX_HAS_CHILD_SOURCES} ELSE {})
               \cup
               (IF box_target_counts_cumul[box_id]
                       - nonchild_target_count(box_id) # 0
                THEN {BOX_HAS_CHILD_TARGETS} ELSE {}))
    \cup (IF nonchild_source_count(box_id) # 0
          THEN {BOX_HAS_OWN_SOURCES} ELSE {})
    \cup (IF nonchild_target_count(box_id) # 0
          THEN {BOX_HAS_OWN_TARGETS} ELSE {})

\* a leaf's non-child source count left as it was found
my_source_count_as_found(box_id) == nonchild_source_count(box_id)

my_source_count(box_id) ==
    IF sources_are_targets THEN particle_count(box_id)
    ELSE box_source_counts_cumul[box_id]

\* With sources_are_targets the two non-child count arrays are one array.
my_target_count(box_id) ==
    IF sources_are_targets THEN particle_count(box_id)
    ELSE particle_count(box_id) - box_source_counts_cumul[box_id]

\* my_box_flags of a box without children
LeafBoxFlags(box_id) ==
    (IF my_source_count(box_id) # 0 THEN {BOX_HAS_OWN_SOURCES} ELSE {})
    \cup (IF my_target_count(box_id) # 0 THEN {BOX_HAS_OWN_TARGETS} ELSE {})

my_box_flags(box_id) ==
    IF particle_count(box_id) = 0 THEN {}
    ELSE IF box_has_children[box_id] # 0 THEN NonLeafBoxFlags(box_id)
    ELSE LeafBoxFlags(box_id)

\* Every lane goes on, the empty-box exit being left out.
BoxInfoLanes_no_exit == Boxes

\* The lanes that get past the empty-box exit.
BoxInfoLanes == {b \in Boxes : particle_count(b) # 0}

BoxInfoLeafLanes == {b \in BoxInfoLanes : box_has_children[b] = 0}

\* The lanes storing to box_child_ids[parent_id + aligned_nboxes*morton_nr]
ChildIdWriters(morton_nr, parent_id) ==
    {b \in BoxInfoLanes :
        box_parent_ids[b] = parent_id /\ box_morton_nrs[b] = morton_nr}

ChildIdArrays(morton_nr) ==
    ArraysFrom([p \in Boxes |->
                   ScatterOutcomes(ChildIdWriters(morton_nr, p),
                                   [b \in Boxes |-> b],
                                   {box_child_ids[morton_nr][p]})],
               nboxes)

\* walk_morton_nr & ${2**(dimensions-1-idim)}
has_bit(walk_morton_nr, idim) ==
    (walk_morton_nr \div Pow2(dimensions - 1 - idim)) % 2

\* "walk up to root to find center": center_idim = num / 2^den on entry,
\* and one_half*(center_idim - one_half + has_bit) after a step.
RECURSIVE CenterWalk(_, _, _, _, _, _)
CenterWalk(idim, current_box_id, walk_parent_id, walk_morton_nr, num, den) ==
    IF walk_parent_id = current_box_id THEN [num |-> num, den |-> den]
    ELSE CenterWalk(idim, walk_parent_id, box_parent_ids[walk_parent_id],
                    box_morton_nrs[walk_parent_id],
                    num + (2 * has_bit(walk_morton_nr, idim) - 1) * Pow2(den - 1),
                    den + 1)

\* coord_t extent = bbox.max_x - bbox.min_x;
\* bbox.min_${AXIS_NAMES[idim]} + extent*(one_half+center_${idim})
BoxCenter(box_id, idim) ==
    LET c == CenterWalk(idim, box_id, box_parent_ids[box_id],
                        box_morton_nrs[box_id], 0, 1)
        extent == bbox.max[0] - bbox.min[0]
    IN  [num |-> bbox.min[idim] * Pow2(c.den)
                     + extent * (Pow2(c.den - 1) + c.num),
         den |-> Pow2(c.den)]

BoxInfo ==
    /\ pc = "box_info"
    /\ box_flags' = [b \in Boxes |-> my_box_flags(b)]
    /\ box_source_counts_nonchild' =
           [b \in Boxes |-> IF b \in BoxInfoLeafLanes THEN my_source_count(b)
                            ELSE box_source_counts_nonchild[b]]
    /\ box_target_counts_nonchild' =
           [b \in Boxes |-> IF b \in BoxInfoLeafLanes THEN my_target_count(b)
                            ELSE box_target_counts_nonchild[b]]
    /\ \E arrays \in {[m \in MortonNrs |-> ChildIdArrays(m)]} :
           box_child_ids' \in
               {f \in [MortonNrs -> UNION {arrays[m] : m \in MortonNrs}] :
                   \A m \in MortonNrs : f[m] \in arrays[m]}
    /\ box_centers' =
           [idim \in Axes |->
               [b \in Boxes |-> IF b \in BoxInfoLanes THEN BoxCenter(b, idim)
                                ELSE box_centers[idim][b]]]
    /\ pc' = "tree"
    /\ UNCHANGED <<inputs, level, nboxes, nboxes_guess, prev_nboxes,
                   have_oversize_split_box, particle_arrays, box_records,
                   box_has_children, box_morton_bin_counts, prune_vars,
                   box_srcntgt_counts_nonchild, source_target_vars,
                   filter_vars>>

\* The tree build with the passes that follow the level loop, for source
\* and target particles weighing one each.
InitTree == Init /\ \A i \in Particles : refine_weights[i] = 1

NextTree ==
    \/ Next
    \/ StartPrune
    \/ PruneOnce
    \/ PruneBoxes
    \/ ExtractNonchildSrcntgtCount
    \/ UseSrcntgtsAsSourcesAndTargets
    \/ SourceCounter
    \/ FindSourceAndTargetIndices
    \/ BoxInfo

SpecTree == InitTree /\ [][NextTree]_vars

\* The same for builds in the plane, over bounding boxes whose minimum and
\* extent differ from axis to axis, the empty boxes being kept.
InitPlaneTree == InitBuild(PlaneDimensions, FALSE, 1 .. PlaneN, {1})

NextPlaneTree ==
    \/ Next
    \/ ExtractNonchildSrcntgtCount
    \/ UseSrcntgtsAsSourcesAndTargets
    \/ SourceCounter
    \/ FindSourceAndTargetIndices
    \/ BoxInfo

SpecPlaneTree == InitPlaneTree /\ [][NextPlaneTree]_vars

\* ---------------------------------------------------------- target filter

\* input_expr: tree_order_flags[i] ? 1 : 0
TargetFilterInput(flags, i) == IF flags[i] # 0 THEN 1 ELSE 0

\* prev_item of the scan at lane i
RECURSIVE TargetFilterPrevItem(_, _)
TargetFilterPrevItem(flags, i) ==
    IF i = 0 THEN 0
    ELSE TargetFilterPrevItem(flags, i - 1) + TargetFilterInput(flags, i - 1)

\* item of the scan at lane i
TargetFilterItem(flags, i) ==
    TargetFilterPrevItem(flags, i) + TargetFilterInput(flags, i)

\* if (item != prev_item) unfiltered_from_filtered_target_index[prev_item] = i
UnfilteredIndexWriters(flags, k) ==
    {i \in DOMAIN flags :
        /\ TargetFilterItem(flags, i) # TargetFilterPrevItem(flags, i)
        /\ TargetFilterPrevItem(flags, i) = k}

\* A read behind the ntargets entries of
\* filtered_from_unfiltered_target_index returns whatever particle_id_t word
\* the memory holds there, if the memory can be read at all.  The model keeps
\* of a word w its image: w itself when it is one of 0 .. MaxN, the values
\* that the counts and indices of a build take, -1 for every negative word
\* and MaxN + 1 for every larger one.
WordImage(w) == IF w < 0 THEN -1 ELSE IF w > MaxN THEN MaxN + 1 ELSE w

\* The images of all words: of the least and the largest particle_id_t and
\* of every word from -1 to MaxN + 1.
WordsPastTheEnd ==
    {WordImage(w) : w \in {-INT_MAX - 1, INT_MAX} \cup (-1 .. MaxN + 1)}

\* The filter scan over a mask of the tree's targets.
TargetFilterScan ==
    /\ pc = "tree"
    /\ NTargetsOfTree > 0
    /\ \E flags \in [0 .. NTargetsOfTree - 1 -> {0, 1}] :
           /\ tree_order_flags' = flags
           /\ filtered_from_unfiltered_target_index' =
                  [i \in DOMAIN flags |-> TargetFilterPrevItem(flags, i)]
           /\ \E f \in {[k \in DOMAIN flags |->
                           ScatterOutcomes(UnfilteredIndexWriters(flags, k),
                                           [i \in DOMAIN flags |-> i],
                                           DOMAIN flags)]} :
                  unfiltered_from_filtered_target_index'
                      \in ArraysFrom(f, NTargetsOfTree)
           /\ nfiltered_targets' = TargetFilterItem(flags, NTargetsOfTree - 1)
    /\ pc' = "target_filter_index"
    /\ UNCHANGED <<inputs, level, nboxes, nboxes_guess, prev_nboxes,
                   have_oversize_split_box, particle_arrays, box_records,
                   box_has_children, box_morton_bin_counts, prune_vars,
                   box_srcntgt_counts_nonchild, source_target_vars,
                   nonchild_counts, box_info_vars, box_target_starts_filtered,
                   box_target_counts_nonchild_filtered>>

\* The lanes whose read of filtered_start lies behind the array.
LanesReadingPastTheEnd ==
    {b \in Boxes : box_target_starts[b]
                       \notin DOMAIN filtered_from_unfiltered_target_index}

\* filtered_from_unfiltered_target_index[unfiltered_start], read whether or
\* not unfiltered_start is below ntargets: at ntargets lane box_id reads the
\* word that lies behind the array at that moment, words[box_id] (kept as
\* its image).
filtered_start(box_id, words) ==
    IF box_target_starts[box_id]
           \in DOMAIN filtered_from_unfiltered_target_index
    THEN filtered_from_unfiltered_target_index[box_target_starts[box_id]]
    ELSE words[box_id]

filtered_post_last(box_id) ==
    LET unfiltered_post_last ==
            box_target_starts[box_id] + box_target_counts_nonchild[box_id]
    IN  IF unfiltered_post_last < NTargetsOfTree
        THEN filtered_from_unfiltered_target_index[unfiltered_post_last]
        ELSE nfiltered_targets

\* The pass stores both outputs of every box, or, when a lane reads behind
\* the array and the memory there cannot be read, it is killed.  Every lane
\* that reads behind the array makes a read of its own, while the other
\* lanes store: two lanes need not find the same word there.
TargetFilterIndex ==
    /\ pc = "target_filter_index"
    /\ \/ /\ \E words \in [LanesReadingPastTheEnd -> WordsPastTheEnd] :
                /\ box_target_starts_filtered' =
                       [b \in Boxes |-> filtered_start(b, words)]
                /\ box_target_counts_nonchild_filtered' =
                       [b \in Boxes |->
                           IF box_target_counts_nonchild[b] > 0
                           THEN filtered_post_last(b)
                                    - filtered_start(b, words)
                           ELSE 0]
          /\ pc' = "filtered"
       \/ /\ LanesReadingPastTheEnd # {}
          /\ pc' = "aborted"
          /\ UNCHANGED <<box_target_starts_filtered,
                         box_target_counts_nonchild_filtered>>
    /\ UNCHANGED <<inputs, level, nboxes, nboxes_guess, prev_nboxes,
                   have_oversize_split_box, particle_arrays, box_records,
                   box_has_children, box_morton_bin_counts, prune_vars,
                   box_srcntgt_counts_nonchild, source_target_vars,
                   nonchild_counts, box_info_vars, tree_order_flags,
                   filtered_from_unfiltered_target_index,
                   unfiltered_from_filtered_target_index, nfiltered_targets>>

\* The indices at which lane box_id of the filter index pass reads
\* filtered_from_unfiltered_target_index, an array of ntargets entries.
TargetFilterIndexReads(box_id) ==
    LET unfiltered_start == box_target_starts[box_id]
        unfiltered_count == box_target_counts_nonchild[box_id]
        unfiltered_post_last == unfiltered_start + unfiltered_count
    IN  {unfiltered_start}
            \cup (IF unfiltered_count > 0 /\ unfiltered_post_last < NTargetsOfTree
                  THEN {unfiltered_post_last} ELSE {})

\* The indices at which lane ibox of box_point_sources reads
\* tree_order_point_source_starts and tree_order_point_source_counts, arrays
\* of nsources entries: s_start, and last_s_in_box for each non-zero count.
BoxPointSourceReads(ibox) ==
    LET s_start == box_source_starts[ibox]
    IN  {s_start}
            \cup {s_start + s_count - 1 :
                     s_count \in {box_source_counts_nonchild[ibox],
                                  box_source_counts_cumul[ibox]} \ {0}}

\* The tree build followed by a target filter, for builds with at most one
\* particle to a leaf and no stick-out.
InitFilter ==
    InitTree /\ stick_out_factor = 0 /\ max_leaf_refine_weight = 1

NextFilter == NextTree \/ TargetFilterScan \/ TargetFilterIndex

SpecFilter == InitFilter /\ [][NextFilter]_vars

\* ------------------------------------------------------------------ claims

\* C1: whenever the tree is at rest (after every level and in the final
\* tree), in every mode, the ranges of the children of every box that has
\* children are pairwise disjoint, follow each other in increasing Morton
\* order, and their union is the box's own range minus its leading
\* non-child particles, which are exactly the slots of the particles still
\* assigned to the box itself.
C1_RangePartition ==
    TreeAtRest =>
        \A p \in Boxes :
            box_has_children[p] = 1 =>
                /\ \A c1, c2 \in ChildBoxes(p) :
                       c1 # c2 =>
                           /\ BoxRange(c1) \cap BoxRange(c2) = {}
                           /\ box_morton_nrs[c1] # box_morton_nrs[c2]
                           /\ box_morton_nrs[c1] < box_morton_nrs[c2] =>
                                  box_srcntgt_starts[c1]
                                      + box_srcntgt_counts_cumul[c1]
                                  <= box_srcntgt_starts[c2]
                /\ UNION {BoxRange(c) : c \in ChildBoxes(p)}
                       = BoxRange(p) \ NonchildRange(p)
                /\ NonchildRange(p) = OwnSlots(p)

C1_Witness ==
    /\ TreeAtRest
    /\ srcntgts_have_extent
    /\ \E p \in Boxes :
           /\ box_has_children[p] = 1
           /\ NonchildSrcntgtsInBox(p) > 0
           /\ Cardinality(ChildBoxes(p)) >= 2

\* C2: in every state of the build user_srcntgt_ids holds every value of
\* [0, N) exactly once.
C2_UserIdsPermutation ==
    /\ DOMAIN user_srcntgt_ids = Particles
    /\ \A u \in Particles :
           Cardinality({i \in Particles : user_srcntgt_ids[i] = u}) = 1

C2_Witness ==
    /\ level >= 2
    /\ pc = "done"
    /\ \E i \in Particles : user_srcntgt_ids[user_srcntgt_ids[i]] # i


\* The build was configured with a particle threshold: every particle
\* weighs 1 and max_leaf_refine_weight is max_particles_in_box.
ParticleThreshold == \A i \in Particles : refine_weights[i] = 1

\* More than max_leaf_refine_weight particles of box b share one location.
CoincidentOverflow(b) ==
    \E i \in BoxRange(b) :
        Cardinality({j \in BoxRange(b) :
                        coords[user_srcntgt_ids[j]] = coords[user_srcntgt_ids[i]]})
            > max_leaf_refine_weight

\* Every particle of box b is kept from descending below b by its extent.
AllStuck(b) ==
    /\ srcntgts_have_extent
    /\ \A i \in BoxRange(b) :
           LevelMortonNumber(user_srcntgt_ids[i], box_levels[b] + 1) = -1

\* C4 as stated: in non-adaptive mode a finished build has no leaf with
\* more particles than the threshold, with or without extents, unless more
\* than threshold particles share a location.
C4_Original ==
    (pc = "done" /\ ~adaptive /\ ParticleThreshold) =>
        \A b \in Boxes :
            IsLeaf(b) =>
                \/ box_srcntgt_counts_cumul[b] <= max_leaf_refine_weight
                \/ CoincidentOverflow(b)

\* C4 amended: in non-adaptive mode a finished build has no leaf with more
\* particles than the threshold, unless more than threshold particles share
\* a location or (with extents) every particle of the leaf is a non-child
\* particle that its extent keeps from descending to the next level.
C4_LeafOccupancy ==
    (pc = "done" /\ ~adaptive /\ ParticleThreshold) =>
        \A b \in Boxes :
            IsLeaf(b) =>
                \/ box_srcntgt_counts_cumul[b] <= max_leaf_refine_weight
                \/ CoincidentOverflow(b)
                \/ AllStuck(b)

C4_Witness ==
    /\ pc = "done" /\ ~adaptive /\ ParticleThreshold
    /\ N > max_leaf_refine_weight
    /\ level >= 2
    /\ \E b \in Boxes : IsLeaf(b) /\ box_levels[b] = level
    /\ \E b \in Boxes : IsLeaf(b) /\ AllStuck(b)
                        /\ box_srcntgt_counts_cumul[b] > max_leaf_refine_weight

\* N > 1 exactly coincident zero-extent points, threshold 1.
CoincidentInput ==
    /\ N > 1
    /\ \A i, j \in Particles : coords[i] = coords[j]
    /\ \A i \in Particles : srcntgt_radii[i] = 0
    /\ ParticleThreshold
    /\ max_leaf_refine_weight = 1

\* C5: a build over N > 1 coincident zero-extent points with threshold 1
\* never ends in DONE and does end in FAILED.
C5_CoincidentFails ==
    /\ [](CoincidentInput => pc # "done")
    /\ (CoincidentInput ~> (pc = "failed"))

C5_Witness == CoincidentInput /\ pc = "failed" /\ level = MaxLevel + 1

\* Position of the build in the level loop; it grows with every pass.
PassIndex ==
    CASE pc = "morton_count_scan" -> 0
      [] pc = "split_box_id_scan" -> 1
      [] pc = "split_and_sort" -> 2
      [] pc = "level_loop_tail" -> 3
      [] OTHER -> 4

Progress == 4 * level + PassIndex

\* C7: every build reaches DONE or FAILED after at most MaxLevel levels:
\* a pass is enabled exactly outside DONE and FAILED (so these are the only
\* states the loop ends in, and no pass runs after them), every enabled pass
\* moves the build forward in the level loop, and the level never passes
\* the bound except to enter FAILED.
C7_Termination ==
    /\ Terminal <=> ~ENABLED Next
    /\ ~ENABLED (Next /\ Progress' <= Progress)
    /\ level <= MaxLevel <=> pc # "failed"
    /\ 1 <= level /\ level <= MaxLevel + 1

C7_Witness == pc = "failed" \/ (pc = "done" /\ level = MaxLevel)

\* The boxes a step marks as having children.
NewlyMarked ==
    {b \in BoxSlots : box_has_children[b] = 0 /\ box_has_children'[b] = 1}

\* The slots of box b whose particle descends to a child at this level, and
\* the refine weight these particles add up to.
DescendingSlots(b) == {i \in BoxRange(b) : morton_nrs[i] # -1}

DescendingWeight(b) ==
    SumOver([i \in Particles |-> refine_weights[user_srcntgt_ids[i]]],
            DescendingSlots(b))

\* Boxes come in batches of 2^d per box a step marks, marks are never taken
\* back, and a non-empty box other than the root sits one level below a
\* parent that has children.
BatchesOfSiblings ==
    /\ nboxes' = nboxes + NChildren * Cardinality(NewlyMarked)
    /\ \A b \in BoxSlots : box_has_children[b] = 1 => box_has_children'[b] = 1

SiblingsOfSplitBox ==
    TreeAtRest =>
        \A b \in Boxes \ {0} :
            box_srcntgt_counts_cumul[b] > 0 =>
                /\ box_has_children[box_parent_ids[b]] = 1
                /\ box_levels[b] = box_levels[box_parent_ids[b]] + 1

\* C8 as stated: in every mode a step gives a box children only if the
\* box's accumulated refine weight exceeds max_leaf_refine_weight, and
\* boxes are created in batches of 2^d siblings of such a box.
C8_Original ==
    /\ [][/\ \A b \in NewlyMarked :
                 BoxRefineWeight(b) > max_leaf_refine_weight
          /\ BatchesOfSiblings]_vars
    /\ []SiblingsOfSplitBox

\* C8 amended: a step gives a box children only if, in adaptive mode, the
\* refine weight of its particles that descend exceeds
\* max_leaf_refine_weight, and in non-adaptive mode, at least one of its
\* particles descends; boxes are created in batches of 2^d siblings of such
\* a box.
C8_SplitOnlyWhenTestPasses ==
    /\ [][/\ \A b \in NewlyMarked :
                 IF adaptive
                 THEN DescendingWeight(b) > max_leaf_refine_weight
                 ELSE DescendingSlots(b) # {}
          /\ BatchesOfSiblings]_vars
    /\ []SiblingsOfSplitBox

C8_Witness ==
    /\ pc = "split_and_sort"
    /\ ~adaptive
    /\ level >= 2
    /\ \E b \in Boxes :
           /\ box_has_children[b] = 1
           /\ box_levels[b] + 1 = level
           /\ BoxRefineWeight(b) <= max_leaf_refine_weight
           /\ nboxes = prev_nboxes + NChildren

NonEmptyBoxes == {i \in Boxes : box_srcntgt_counts_cumul[i] # 0}

\* C9: after the prune scan over any array of per-box counts, to_box_id[i]
\* is the number of non-empty boxes below i, from_box_id[to_box_id[i]] = i
\* for every non-empty box i, to_box_id is strictly increasing on the
\* non-empty boxes and maps them onto [0, nboxes_post_prune),
\* nboxes_post_prune is the number of non-empty boxes, and box 0 maps to 0.
C9_PruneScan ==
    pc = "prune_boxes" =>
        /\ DOMAIN to_box_id = Boxes
        /\ \A i \in Boxes :
               to_box_id[i] = Cardinality({j \in NonEmptyBoxes : j < i})
        /\ \A i \in NonEmptyBoxes : from_box_id[to_box_id[i]] = i
        /\ \A i, j \in NonEmptyBoxes : i < j => to_box_id[i] < to_box_id[j]
        /\ {to_box_id[i] : i \in NonEmptyBoxes} = 0 .. nboxes_post_prune - 1
        /\ nboxes_post_prune = Cardinality(NonEmptyBoxes)
        /\ to_box_id[0] = 0

C9_Witness ==
    /\ pc = "prune_boxes"
    /\ nboxes = MaxPruneBoxes
    /\ Cardinality(NonEmptyBoxes) >= 2
    /\ \E i, j \in Boxes : i < j /\ i \notin NonEmptyBoxes /\ j \in NonEmptyBoxes
    /\ \E i \in NonEmptyBoxes : to_box_id[i] # i

NoEmptyBox == NonEmptyBoxes = Boxes

Identity(n) == [i \in 0 .. n - 1 |-> i]

\* C10: the prune scan of a tree with no empty box yields the identity for
\* to_box_id and from_box_id and nboxes_post_prune = nboxes, re-indexing
\* with them leaves the box count and the re-indexed box fields unchanged,
\* and a pruned tree has no empty box, so pruning it again changes nothing.
C10_PruneIdentity ==
    /\ []((pc = "prune_boxes" /\ NoEmptyBox) =>
              /\ to_box_id = Identity(nboxes)
              /\ from_box_id = Identity(nboxes)
              /\ nboxes_post_prune = nboxes)
    /\ [][(pc = "prune_boxes" /\ NoEmptyBox) =>
              /\ nboxes' = nboxes
              /\ box_srcntgt_counts_cumul' = box_srcntgt_counts_cumul
              /\ box_parent_ids' = box_parent_ids]_vars
    /\ []((pc = "find_prune_indices" /\ DOMAIN to_box_id # {}) => NoEmptyBox)

C10_Witness ==
    /\ pc = "find_prune_indices"
    /\ DOMAIN to_box_id # {}
    /\ to_box_id = Identity(nboxes)
    /\ from_box_id = Identity(nboxes)
    /\ 2 <= nboxes /\ nboxes < prev_nboxes

\* C11: every box with at least one particle has a parent with at least as
\* many particles, hence at least one; the boxes that survive pruning all
\* have a surviving parent, and after the box arrays are compacted every
\* box is non-empty and its parent pointer names a box of the pruned tree.
Pruned == DOMAIN to_box_id # {} /\ pc # "prune_boxes"

C11_NonEmptyParents ==
    /\ \A b \in DOMAIN box_srcntgt_counts_cumul :
           box_srcntgt_counts_cumul[b] >= 1 =>
               /\ box_parent_ids[b] \in DOMAIN box_srcntgt_counts_cumul
               /\ box_srcntgt_counts_cumul[box_parent_ids[b]]
                      >= box_srcntgt_counts_cumul[b]
    /\ pc = "prune_boxes" =>
           \A j \in 0 .. nboxes_post_prune - 1 :
               LET parent == box_parent_ids[from_box_id[j]]
               IN  /\ box_srcntgt_counts_cumul[from_box_id[j]] >= 1
                   /\ to_box_id[parent] \in 0 .. nboxes_post_prune - 1
                   /\ from_box_id[to_box_id[parent]] = parent
    /\ Pruned =>
           \A b \in Boxes :
               /\ box_srcntgt_counts_cumul[b] >= 1
               /\ box_parent_ids[b] \in Boxes
               /\ box_parent_ids[b] < b \/ b = 0

\* A pruned tree that lost boxes and keeps a box below a renumbered parent.
C11_Witness ==
    /\ Pruned
    /\ pc = "find_prune_indices"
    /\ \E b \in Boxes :
           /\ box_parent_ids[b] # 0
           /\ from_box_id[box_parent_ids[b]] # box_parent_ids[b]

\* C13: after the box info pass, for every non-empty box: HAS_CHILDREN is
\* set iff the box was split; HAS_OWN_SOURCES (HAS_OWN_TARGETS) iff a source
\* (target) is assigned to the box itself; HAS_CHILD_SOURCES
\* (HAS_CHILD_TARGETS) iff a source (target) of its range is assigned to a
\* descendant; a leaf has no HAS_CHILD_* flag and its non-child source and
\* target counts are its total source and target counts.
IsSourceParticle(i) == sources_are_targets \/ user_srcntgt_ids[i] < nsources

IsTargetParticle(i) == sources_are_targets \/ user_srcntgt_ids[i] >= nsources

OwnSources(b) == {i \in OwnSlots(b) : IsSourceParticle(i)}

OwnTargets(b) == {i \in OwnSlots(b) : IsTargetParticle(i)}

SourcesInRange(b) == {i \in BoxRange(b) : IsSourceParticle(i)}

TargetsInRange(b) == {i \in BoxRange(b) : IsTargetParticle(i)}

FlagsAsClaimed(b) ==
    /\ BOX_HAS_CHILDREN \in box_flags[b] <=> box_has_children[b] # 0
    /\ BOX_HAS_OWN_SOURCES \in box_flags[b] <=> OwnSources(b) # {}
    /\ BOX_HAS_OWN_TARGETS \in box_flags[b] <=> OwnTargets(b) # {}
    /\ BOX_HAS_CHILD_SOURCES \in box_flags[b]
           <=> SourcesInRange(b) \ OwnSources(b) # {}
    /\ BOX_HAS_CHILD_TARGETS \in box_flags[b]
           <=> TargetsInRange(b) \ OwnTargets(b) # {}

LeafAsClaimed(b) ==
    /\ BOX_HAS_CHILD_SOURCES \notin box_flags[b]
    /\ BOX_HAS_CHILD_TARGETS \notin box_flags[b]
    /\ box_source_counts_nonchild[b] = Cardinality(SourcesInRange(b))
    /\ box_target_counts_nonchild[b] = Cardinality(TargetsInRange(b))

C13_BoxFlags ==
    pc = "tree" =>
        \A b \in Boxes :
            box_srcntgt_counts_cumul[b] > 0 =>
                /\ FlagsAsClaimed(b)
                /\ box_has_children[b] = 0 => LeafAsClaimed(b)

\* C14: for a box without particles the box info pass stores box_flags = 0
\* and nothing else: no child slot receives the box's id, and its center,
\* its non-child counts and its own child slots keep the zero they were
\* allocated with.
EmptyBoxes == {b \in Boxes : box_srcntgt_counts_cumul[b] = 0}

C14_EmptyBoxUntouched ==
    [][(pc = "box_info" /\ pc' = "tree") =>
          \A b \in EmptyBoxes :
              /\ box_flags'[b] = {}
              /\ \A m \in MortonNrs : \A p \in Boxes :
                     box_child_ids'[m][p] = b => box_child_ids[m][p] = b
              /\ \A m \in MortonNrs :
                     box_child_ids'[m][b] = 0 /\ box_child_ids[m][b] = 0
              /\ \A idim \in Axes :
                     /\ box_centers'[idim][b] = ZeroCenter
                     /\ box_centers[idim][b] = ZeroCenter
              /\ box_source_counts_nonchild'[b] = 0
              /\ box_source_counts_nonchild[b] = 0
              /\ box_target_counts_nonchild'[b] = 0
              /\ box_target_counts_nonchild[b] = 0]_vars

\* A finished unpruned tree with an empty box next to a non-empty sibling
\* on the second level.
C14_Witness ==
    /\ pc = "tree"
    /\ \E b \in EmptyBoxes : \E c \in Boxes :
           /\ b # 0
           /\ box_srcntgt_counts_cumul[c] > 0
           /\ box_levels[c] = 2
           /\ box_flags[b] = {}
           /\ box_flags[c] # {}
           /\ \A idim \in Axes : box_centers[idim][b] = ZeroCenter

\* C15: after the box info pass the child slot box_child_ids[m][p] holds the
\* id of the one non-empty box with parent p and Morton number m, and 0 if
\* there is none; no two lanes of the pass, the root's included, store
\* different ids to one slot; box 0 is never registered as a child.
C15_ChildSlots ==
    pc = "tree" =>
        \A p \in Boxes : \A m \in MortonNrs :
            LET writers == ChildIdWriters(m, p)
                children == writers \ {p}
            IN  /\ \A b1 \in writers : \A b2 \in writers : b1 = b2
                /\ IF children = {} THEN box_child_ids[m][p] = 0
                   ELSE box_child_ids[m][p] \in children \ {0}

\* C16: for every non-empty box at level l the box info pass stores on each
\* axis k the center min_k + E_k * (2*m_k + 1) / 2^(l+1), m_k being the
\* l-bit integer of the axis-k Morton bits on the path from the root (the
\* level-1 ancestor's bit most significant); the root's center is the
\* center of the bounding box; every particle of the box's range lies in
\* cell m_k of level l, the cell the Morton bin counter put it in.
RECURSIVE PathBits(_, _)
PathBits(b, k) ==
    IF box_parent_ids[b] = b THEN 0
    ELSE 2 * PathBits(box_parent_ids[b], k)
             + ((box_morton_nrs[b] \div Pow2(dimensions - 1 - k)) % 2)

C16_BoxCenters ==
    pc = "tree" =>
        \A b \in Boxes :
            box_srcntgt_counts_cumul[b] > 0 =>
                \A k \in Axes :
                    LET center == box_centers[k][b]
                        offset == center.num - global_min(k) * center.den
                    IN  /\ offset * Pow2(box_levels[b] + 1)
                               = global_extent(k) * (2 * PathBits(b, k) + 1)
                                     * center.den
                        /\ PathBits(b, k) < Pow2(box_levels[b])
                        /\ b = 0 =>
                               2 * offset = global_extent(k) * center.den
                        /\ \A i \in BoxRange(b) :
                               AxisBits(k, coords[user_srcntgt_ids[i]][k],
                                        box_levels[b]) = PathBits(b, k)

\* C17: with distinct sources and targets, after the source and target
\* index pass every non-empty box b has box_source_starts[b] = the number
\* of sources before its first particle in tree order, box_target_starts[b]
\* = the number of targets before it, box_source_counts_cumul[b] and
\* box_target_counts_cumul[b] = the numbers of sources and of targets in
\* its range, the two adding up to its particle count; the lanes that store
\* one box entry during the walk to the root all store the same value.
SourcesBefore(j) ==
    Cardinality({i \in Particles : i < j /\ user_srcntgt_ids[i] < nsources})

TargetsBefore(j) ==
    Cardinality({i \in Particles : i < j /\ user_srcntgt_ids[i] >= nsources})

IndexPassDone == ~sources_are_targets /\ pc \in {"box_info", "tree"}

C17_SourceTargetRanges ==
    IndexPassDone =>
        \A b \in Boxes :
            box_srcntgt_counts_cumul[b] > 0 =>
                /\ box_source_starts[b] = SourcesBefore(box_srcntgt_starts[b])
                /\ box_target_starts[b] = TargetsBefore(box_srcntgt_starts[b])
                /\ box_source_counts_cumul[b] = Cardinality(SourcesInRange(b))
                /\ box_target_counts_cumul[b] = Cardinality(TargetsInRange(b))
                /\ box_source_counts_cumul[b] + box_target_counts_cumul[b]
                       = box_srcntgt_counts_cumul[b]
                /\ StartWriters(b) # {} /\ CountWriters(b) # {}
                /\ \A i1 \in StartWriters(b) : \A i2 \in StartWriters(b) :
                       source_nr(i1) = source_nr(i2)
                           /\ target_nr(i1) = target_nr(i2)
                /\ \A i1 \in CountWriters(b) : \A i2 \in CountWriters(b) :
                       LET start == box_srcntgt_starts[b]
                       IN  /\ SourceCountUpTo(i1, start)
                                  = SourceCountUpTo(i2, start)
                           /\ TargetCountUpTo(i1, start)
                                  = TargetCountUpTo(i2, start)

\* Sources and targets mixed in a tree where a box below the root starts
\* after a source and after a target.
C17_Witness ==
    /\ IndexPassDone
    /\ pc = "box_info"
    /\ \E b \in Boxes :
           /\ box_srcntgt_counts_cumul[b] > 0
           /\ box_levels[b] >= 1
           /\ box_source_starts[b] > 0
           /\ box_target_starts[b] > 0
           /\ box_target_counts_cumul[b] > 0

\* C18: with distinct sources and targets (user ids below nsources are the
\* sources), after the source and target index pass user_source_ids lists
\* the user source ids in tree order, each once, srcntgt_target_ids lists
\* the targets in tree order, each once, and sorted_target_ids inverts it:
\* sorted_target_ids[srcntgt_target_ids[t] - nsources] = t for every target
\* position t; every slot of the three arrays has exactly one writer.
C18_SourceTargetIds ==
    IndexPassDone =>
        /\ DOMAIN user_source_ids = 0 .. nsources - 1
        /\ DOMAIN srcntgt_target_ids = 0 .. ntargets - 1
        /\ DOMAIN sorted_target_ids = 0 .. ntargets - 1
        /\ \A i \in Particles :
               IF user_srcntgt_ids[i] < nsources
               THEN user_source_ids[SourcesBefore(i)] = user_srcntgt_ids[i]
               ELSE srcntgt_target_ids[TargetsBefore(i)] = user_srcntgt_ids[i]
        /\ {user_source_ids[k] : k \in 0 .. nsources - 1} = 0 .. nsources - 1
        /\ {srcntgt_target_ids[t] : t \in 0 .. ntargets - 1} = nsources .. N - 1
        /\ \A t \in 0 .. ntargets - 1 :
               sorted_target_ids[srcntgt_target_ids[t] - nsources] = t
        /\ \A k \in 0 .. nsources - 1 :
               Cardinality(UserSourceIdWriters(k)) = 1
        /\ \A t \in 0 .. ntargets - 1 :
               /\ Cardinality(SrcntgtTargetIdWriters(t)) = 1
               /\ Cardinality(SortedTargetIdWriters(t)) = 1

\* Two targets that the tree order swaps, next to a source.
C18_Witness ==
    /\ IndexPassDone
    /\ pc = "box_info"
    /\ nsources >= 1
    /\ \E t \in 0 .. ntargets - 1 : sorted_target_ids[t] # t

\* C19: in the final tree the own-source slices
\* [box_source_starts[b], box_source_starts[b] + box_source_counts_nonchild[b])
\* of the boxes are pairwise disjoint and cover [0, nsources) exactly, and
\* the own-target slices cover [0, ntargets) likewise, with and without
\* extents.
\* _get_source_slice, _get_target_slice
SourceSlice(b) ==
    box_source_starts[b]
        .. box_source_starts[b] + box_source_counts_nonchild[b] - 1

TargetSlice(b) ==
    box_target_starts[b]
        .. box_target_starts[b] + box_target_counts_nonchild[b] - 1

C19_OwnSlicesPartition ==
    pc = "tree" =>
        /\ \A b1 \in Boxes : \A b2 \in Boxes :
               b1 # b2 =>
                   /\ SourceSlice(b1) \cap SourceSlice(b2) = {}
                   /\ TargetSlice(b1) \cap TargetSlice(b2) = {}
        /\ UNION {SourceSlice(b) : b \in Boxes} = 0 .. nsources - 1
        /\ UNION {TargetSlice(b) : b \in Boxes} = 0 .. NTargetsOfTree - 1
        /\ \A b \in Boxes :
               /\ box_source_counts_nonchild[b] >= 0
               /\ box_target_counts_nonchild[b] >= 0

\* A tree with extents in which a split box and two of its descendants
\* each own a particle.
C19_Witness ==
    /\ pc = "tree"
    /\ srcntgts_have_extent
    /\ \E b \in Boxes :
           /\ box_has_children[b] # 0
           /\ SourceSlice(b) \cup TargetSlice(b) # {}
           /\ Cardinality({c \in Boxes :
                  c # b /\ SourceSlice(c) \cup TargetSlice(c) # {}}) >= 2

\* C20: for any mask over the targets in tree order the target filter
\* passes give filtered_from_unfiltered_target_index[i] = the number of
\* flagged targets before i, unfiltered_from_filtered_target_index
\* [filtered_from_unfiltered_target_index[i]] = i for every flagged i,
\* nfiltered_targets = the number of flagged targets, and for every box
\* box_target_starts_filtered = the number of flagged targets before the
\* box's target start and box_target_counts_nonchild_filtered = the number
\* of flagged targets in its own-target range, 0 for an empty range.
FlaggedTargets == {i \in DOMAIN tree_order_flags : tree_order_flags[i] # 0}

FlaggedBefore(j) == Cardinality({i \in FlaggedTargets : i < j})

C20_ScanPart ==
    /\ \A i \in DOMAIN tree_order_flags :
           filtered_from_unfiltered_target_index[i] = FlaggedBefore(i)
    /\ \A i \in FlaggedTargets :
           unfiltered_from_filtered_target_index[
               filtered_from_unfiltered_target_index[i]] = i
    /\ nfiltered_targets = Cardinality(FlaggedTargets)

C20_TargetFilter ==
    pc = "filtered" =>
        /\ C20_ScanPart
        /\ \A b \in Boxes :
               /\ box_target_starts_filtered[b]
                      = FlaggedBefore(box_target_starts[b])
               /\ box_target_counts_nonchild_filtered[b]
                      = Cardinality(TargetSlice(b) \cap FlaggedTargets)

\* C12: when the running box count of the split-decision scan passes the
\* largest box_id_t the build fails before the realization pass is handed
\* the total or a split_box_id: the realization pass only ever sees a total
\* that has not gone down and split box ids that name boxes of the new
\* total.
C12_NoSilentWrap ==
    pc = "split_and_sort" =>
        /\ prev_nboxes <= nboxes
        /\ \A i \in Particles :
               /\ prev_nboxes <= split_box_ids[i]
               /\ split_box_ids[i] <= nboxes
               /\ do_split_box(i) => new_box_id(i) \in 0 .. nboxes - 1

\* The realization pass of one level, as a step.
RealizationStep == pc = "split_and_sort" /\ pc' # "split_and_sort"

\* The boxes the level being realized creates, and the refine weight of the
\* particles a box holds once the pass is over.
BoxesOfThisLevel == prev_nboxes .. nboxes - 1

WeightAfterPass(b) ==
    SumOver([k \in Particles |-> refine_weights[user_srcntgt_ids'[k]]],
            {k \in Particles :
                /\ box_srcntgt_starts'[b] <= k
                /\ k < box_srcntgt_starts'[b] + box_srcntgt_counts_cumul'[b]})

OversizeChildCreated ==
    \E b \in BoxesOfThisLevel : WeightAfterPass(b) > max_leaf_refine_weight

\* The same once the pass is over: the refine weight of the particles that
\* box b holds, and whether a box of the level just realized is oversize.
WeightInBox(b) ==
    SumOver([k \in Particles |-> refine_weights[user_srcntgt_ids[k]]],
            {k \in Particles :
                /\ box_srcntgt_starts[b] <= k
                /\ k < box_srcntgt_starts[b] + box_srcntgt_counts_cumul[b]})

OversizeChildLeft ==
    \E b \in BoxesOfThisLevel : WeightInBox(b) > max_leaf_refine_weight

\* The driver's step after the realization pass.
LoopTailStep == pc = "level_loop_tail" /\ pc' # "level_loop_tail"

\* C21: the realization pass of a level leaves have_oversize_split_box set
\* exactly if a child box created in that pass weighs more than
\* max_leaf_refine_weight (the flag of an earlier level being cleared by
\* then), and the driver then goes on to the next level (which is where the
\* level bound ends the build in FAILED) exactly in that case; otherwise it
\* enters DONE.  A pass that splits no box ends in DONE.
C21_LoopContinuation ==
    [][/\ RealizationStep =>
            /\ have_oversize_split_box' =
                   (IF OversizeChildCreated THEN 1 ELSE 0)
            /\ pc' = "level_loop_tail" /\ level' = level
       /\ LoopTailStep =>
            /\ have_oversize_split_box = (IF OversizeChildLeft THEN 1 ELSE 0)
            /\ OversizeChildLeft =>
                   /\ level' = level + 1
                   /\ pc' = (IF level < MaxLevel THEN "morton_count_scan"
                                                 ELSE "failed")
            /\ ~OversizeChildLeft => pc' = "done" /\ level' = level
            /\ BoxesOfThisLevel = {} => pc' = "done"]_vars

\* The loop went on after level 1, whose pass set the flag, and ended at a
\* later level whose pass created boxes, none of them oversize.
C21_Witness ==
    /\ pc = "done"
    /\ level >= 2
    /\ have_oversize_split_box = 0
    /\ nboxes > prev_nboxes

\* The boxes that the realization pass splits, the particles of box b bound
\* for octant m, and the id of the child box of that octant.
SplittingBoxes == {srcntgt_box_ids[i] : i \in {j \in Particles : do_split_box(j)}}

OctantMembers(b, m) ==
    {i \in Particles : srcntgt_box_ids[i] = b /\ morton_nrs[i] = m}

ChildIdOf(b, m) ==
    split_box_ids[CHOOSE i \in Particles : srcntgt_box_ids[i] = b]
        - NChildren + m

\* The lanes that store the record of box c, as told by what each lane
\* does: its box splits, its Morton number is an octant, and its cumulative
\* count of that octant is the octant's final count.
LanesWritingRecord(c) ==
    {i \in Particles :
        /\ do_split_box(i)
        /\ morton_nrs[i] \in MortonNrs
        /\ ChildIdOf(srcntgt_box_ids[i], morton_nrs[i]) = c
        /\ i \in ChildBoxWriters}

\* C22: in one split-and-sort pass, for every splitting box and every
\* octant holding one of its particles, exactly one lane (the last particle
\* of the octant, whose cumulative count equals the octant's final count)
\* writes the child box record (start, parent, Morton number, level, count);
\* for an octant without particles no lane writes and the child's record
\* stays all zero; no record is written by two lanes.
C22_SingleRecordWriter ==
    [][RealizationStep =>
          /\ \A c \in BoxSlots : Cardinality(BoxRecordWriters(c)) <= 1
          /\ \A b \in SplittingBoxes : \A m \in MortonNrs :
               LET c == ChildIdOf(b, m)
                   members == OctantMembers(b, m)
                   before == {i \in Particles :
                                 srcntgt_box_ids[i] = b /\ morton_nrs[i] < m}
               IN  /\ c \in BoxesOfThisLevel
                   /\ LanesWritingRecord(c) = BoxRecordWriters(c)
                   /\ members # {} =>
                        /\ LanesWritingRecord(c) =
                               {CHOOSE i \in members :
                                    \A j \in members : j <= i}
                        /\ box_srcntgt_starts'[c] =
                               box_srcntgt_starts[b] + Cardinality(before)
                        /\ box_parent_ids'[c] = b
                        /\ box_morton_nrs'[c] = m
                        /\ box_levels'[c] = level
                        /\ box_srcntgt_counts_cumul'[c] = Cardinality(members)
                   /\ members = {} =>
                        /\ LanesWritingRecord(c) = {}
                        /\ box_srcntgt_starts'[c] = 0
                        /\ box_parent_ids'[c] = 0
                        /\ box_morton_nrs'[c] = 0
                        /\ box_levels'[c] = 0
                        /\ box_srcntgt_counts_cumul'[c] = 0]_vars

\* A pass has left a child box of several particles next to a sibling of
\* an empty octant.
C22_Witness ==
    /\ pc \in {"morton_count_scan", "done", "failed"}
    /\ \E c1, c2 \in Boxes \ {0} :
           /\ box_srcntgt_counts_cumul[c1] >= 2
           /\ box_levels[c1] >= 1
           /\ box_srcntgt_counts_cumul[c2] = 0
           /\ box_levels[c2] = 0
           /\ (c1 - 1) \div NChildren = (c2 - 1) \div NChildren

\* C23: in one split-and-sort pass the target index of every particle lies
\* inside the range [start, start + count) of the box the particle belongs
\* to before the pass, a particle of a box that does not split keeps its
\* index, and no two particles have the same target index: every slot of
\* the next particle-id buffer and of the next box-id buffer is written by
\* exactly one lane.
C23_SlotsWrittenOnce ==
    pc = "split_and_sort" =>
        /\ \A i \in Particles :
               /\ DestinationIdx(i) \in BoxRange(srcntgt_box_ids[i])
               /\ ~do_split_box(i) => DestinationIdx(i) = i
        /\ \A i, j \in Particles :
               DestinationIdx(i) = DestinationIdx(j) => i = j
        /\ \A s \in Particles :
               Cardinality({i \in Particles : DestinationIdx(i) = s}) = 1

\* A pass is about to move a particle of a splitting box while a particle
\* of a box that does not split stays.
C23_Witness ==
    /\ pc = "split_and_sort"
    /\ \E i, j \in Particles :
           /\ do_split_box(i)
           /\ DestinationIdx(i) # i
           /\ ~do_split_box(j)

\* C24: inside every splitting box the split-and-sort pass places the
\* non-child particles (Morton number -1) first and then the particles of
\* octant 0, 1, ... in increasing Morton number, and it is stable: of two
\* particles of one splitting box the one with the smaller Morton number,
\* or with the same Morton number and the smaller index, comes first.
C24_MortonOrderStable ==
    pc = "split_and_sort" =>
        \A i, j \in Particles :
            (/\ do_split_box(i)
             /\ srcntgt_box_ids[i] = srcntgt_box_ids[j]
             /\ \/ morton_nrs[i] < morton_nrs[j]
                \/ morton_nrs[i] = morton_nrs[j] /\ i < j)
            => tgt_particle_idx(i) < tgt_particle_idx(j)

\* A pass is about to move a particle of a higher octant behind a later
\* particle of a lower one, past two particles that share an octant.
C24_Witness ==
    /\ pc = "split_and_sort"
    /\ \E i, j, k \in Particles :
           /\ do_split_box(i)
           /\ srcntgt_box_ids[i] = srcntgt_box_ids[j]
           /\ srcntgt_box_ids[i] = srcntgt_box_ids[k]
           /\ i < j
           /\ morton_nrs[i] > morton_nrs[j]
           /\ k # j
           /\ morton_nrs[k] = morton_nrs[j]

\* What the segmented Morton scan can yield for the slots lo .. hi when the
\* scan is cut into two parts at any place and each part is scanned the same
\* way: the value and whether a segment starts inside the slots.  The merge
\* crosses a segment boundary if a segment starts in its right part.
RECURSIVE MortonDecompositions(_, _)
MortonDecompositions(lo, hi) ==
    IF lo = hi
    THEN {[val |-> scan_t_from_particle(lo, level),
           start |-> box_start_flags[lo] = 1]}
    ELSE UNION {{[val |-> scan_t_add(a.val, b.val, b.start),
                  start |-> a.start \/ b.start] :
                    a \in MortonDecompositions(lo, k),
                    b \in MortonDecompositions(k + 1, hi)} :
                k \in lo .. hi - 1}

\* The same for the split-decision scan, which has no segments.
RECURSIVE SplitDecompositions(_, _)
SplitDecompositions(lo, hi) ==
    IF lo = hi THEN {count_new_boxes_needed(lo, srcntgt_box_ids[lo])}
    ELSE UNION {{box_id_add(a, b) :
                    a \in SplitDecompositions(lo, k),
                    b \in SplitDecompositions(k + 1, hi)} :
                k \in lo .. hi - 1}

\* No lane of the realization pass reads a box record that a lane writes.
NoRecordReadWhileWritten ==
    \A i \in ChildBoxWriters :
        /\ new_box_id(i) \in BoxSlots
        /\ \A j \in Particles : srcntgt_box_ids[j] # new_box_id(i)

\* C25: for a fixed input what one level produces does not depend on how
\* the scans are decomposed nor on the order in which the lanes run: every
\* decomposition of either scan yields the one value per particle, every
\* per-box aggregate, every slot of the next particle-id and box-id buffers
\* and every field of every box record can come out in one way only, and no
\* lane reads a record another lane writes.
C25_Deterministic ==
    /\ pc = "morton_count_scan" =>
           /\ \A i \in Particles :
                  {r.val : r \in MortonDecompositions(0, i)}
                      = {MortonScanItem(i)}
           /\ \A b \in BoxSlots :
                  Cardinality(MortonBoxOutcomes(MortonScanItems, b)) = 1
    /\ pc = "split_box_id_scan" =>
           \A i \in Particles :
               SplitDecompositions(0, i) = {SplitBoxIdScanItem(i)}
    /\ pc = "split_and_sort" =>
           /\ NoRecordReadWhileWritten
           /\ \A s \in Particles :
                  /\ Cardinality(SlotOutcomes(s, user_srcntgt_ids,
                                              Particles)) = 1
                  /\ Cardinality(SlotOutcomes(
                         s, [i \in Particles |-> DestinationBoxId(i)],
                         0 .. nboxes - 1)) = 1
           /\ \A b \in BoxSlots :
                  /\ Cardinality(BoxRecordOutcomes(
                         b, [i \in ChildBoxWriters |-> new_box_start(i)],
                         box_srcntgt_starts[b])) = 1
                  /\ Cardinality(BoxRecordOutcomes(
                         b, [i \in ChildBoxWriters |-> new_count(i)],
                         box_srcntgt_counts_cumul[b])) = 1
                  /\ Cardinality(BoxRecordOutcomes(
                         b, srcntgt_box_ids, box_parent_ids[b])) = 1
                  /\ Cardinality(BoxRecordOutcomes(
                         b, morton_nrs, box_morton_nrs[b])) = 1

\* A pass over three particles of two boxes, two of which share a box that
\* splits.
C25_Witness ==
    /\ pc = "split_and_sort"
    /\ N = 3
    /\ level >= 2
    /\ \E i, j, k \in Particles :
           /\ i # j
           /\ srcntgt_box_ids[i] = srcntgt_box_ids[j]
           /\ srcntgt_box_ids[k] # srcntgt_box_ids[i]
           /\ do_split_box(i)

\* The split-decision scan of one level, as a step.
SplitScanStep == pc = "split_box_id_scan" /\ pc' = "split_and_sort"

\* The particles assigned to box b that descend at this level, and their
\* refine weight.
DescendingParticles(b) == {i \in OwnSlots(b) : morton_nrs[i] # -1}

WeightOfDescending(b) ==
    SumOver([i \in Particles |-> refine_weights[user_srcntgt_ids[i]]],
            DescendingParticles(b))

\* The test of the claim for box b at this level.
SplitsAtThisLevel(b) ==
    /\ box_srcntgt_starts[b] \in OwnSlots(b)
    /\ srcntgts_have_extent => box_levels[b] = level - 1
    /\ IF adaptive
       THEN WeightOfDescending(b) > max_leaf_refine_weight
       ELSE DescendingParticles(b) # {}

\* What particle i adds to the running total, read off the scan's output.
ContributionOf(i) ==
    split_box_ids'[i] - (IF i = 0 THEN 0 ELSE split_box_ids'[i - 1])

\* C26: in the split-decision scan of level L a box is marked has-children
\* and its first particle adds exactly 2^d to the running total iff the
\* box's first range slot holds a particle assigned to it, (with extents)
\* the box was created at level L - 1, and, in adaptive mode, the weight of
\* its particles bound for the octants exceeds max_leaf_refine_weight, or,
\* in non-adaptive mode, at least one of its particles descends.  Every
\* other particle adds 0 (particle 0 also the previous box count) and
\* marks nothing.
C26_SplitDecision ==
    [][SplitScanStep =>
          /\ \A b \in Boxes :
                 (box_has_children[b] = 0 /\ box_has_children'[b] = 1)
                     <=> SplitsAtThisLevel(b)
          /\ \A b \in BoxSlots \ Boxes : box_has_children'[b] = 0
          /\ \A i \in Particles :
                 ContributionOf(i) =
                     (IF i = 0 THEN nboxes ELSE 0)
                     + (IF /\ SplitsAtThisLevel(srcntgt_box_ids[i])
                           /\ i = box_srcntgt_starts[srcntgt_box_ids[i]]
                        THEN NChildren ELSE 0)]_vars

\* With extents, a scan at level 2 or later has marked one box while a box
\* of an earlier level that still holds particles of its own stays as it is.
C26_Witness ==
    /\ pc = "split_and_sort"
    /\ srcntgts_have_extent
    /\ level >= 2
    /\ nboxes > prev_nboxes
    /\ \E b \in Boxes : OwnSlots(b) # {} /\ box_levels[b] + 1 < level

\* C27: after the split-decision scan of a level nboxes is the previous
\* level's nboxes plus 2^d times the number of boxes the scan marked
\* has-children, it bounds every box id in use, and it never decreases.
C27_BoxCount ==
    [][SplitScanStep =>
          /\ nboxes' = nboxes + NChildren * Cardinality(NewlyMarked)
          /\ nboxes' >= nboxes
          /\ \A i \in Particles : srcntgt_box_ids'[i] < nboxes']_vars

\* What particle i contributes to the split-decision scan: the seed at
\* particle 0 plus 2^d at the first particle of each splitting box.
SeedAndSplits(i) ==
    (IF i = 0 THEN nboxes ELSE 0)
    + (IF /\ SplitsAtThisLevel(srcntgt_box_ids[i])
          /\ i = box_srcntgt_starts[srcntgt_box_ids[i]]
       THEN NChildren ELSE 0)

\* C28 as stated: split_box_ids[i] is the exclusive prefix sum of the
\* contributions: it leaves out the contribution of particle i itself.
C28_Original ==
    [][SplitScanStep =>
          \A i \in Particles :
              split_box_ids'[i] =
                  SumOver([j \in Particles |-> SeedAndSplits(j)],
                          0 .. i - 1)]_vars

\* C28 amended: split_box_ids[i] is the inclusive prefix sum of the
\* contributions, that of particle i itself included, as a box_id_t; the
\* first particle of a splitting box sees the same value as the box's other
\* particles, and the last particle's value is the new nboxes.
C28_InclusivePrefixSum ==
    [][SplitScanStep =>
          /\ \A i \in Particles :
                 split_box_ids'[i] =
                     box_id_t(SumOver([j \in Particles |-> SeedAndSplits(j)],
                                      0 .. i))
          /\ nboxes' = split_box_ids'[N - 1]]_vars

\* A scan has met the first particle of a splitting box after particle 0.
C28_Witness ==
    /\ pc = "split_and_sort"
    /\ \E i \in Particles \ {0} :
           /\ split_box_ids[i] = split_box_ids[i - 1] + NChildren
           /\ do_split_box(i)

\* C29: in one level all particles assigned to one splitting box see the
\* same split_box_id, the child ids split_box_id - 2^d + m of the octants
\* m of different splitting boxes are different, and every child id is at
\* least the previous level's box count and below the new one, so that no
\* box id is handed out twice over the build.
C29_ChildIdBlocks ==
    pc = "split_and_sort" =>
        /\ \A i, j \in Particles :
               (do_split_box(i) /\ srcntgt_box_ids[i] = srcntgt_box_ids[j])
                   => split_box_ids[i] = split_box_ids[j]
        /\ \A b \in SplittingBoxes : \A m \in MortonNrs :
               /\ prev_nboxes <= ChildIdOf(b, m)
               /\ ChildIdOf(b, m) < nboxes
        /\ \A b1, b2 \in SplittingBoxes : \A m1, m2 \in MortonNrs :
               ChildIdOf(b1, m1) = ChildIdOf(b2, m2) => b1 = b2 /\ m1 = m2

\* C30: over the whole build, in every mode, a box is marked has-children
\* at most once and only by the scan of the level right after the level it
\* was created at; a mark is never cleared; and a box that a scan has tested
\* and left unsplit is not split by a later scan.
C30_MarkedOnceFreshOnly ==
    [][/\ \A b \in BoxSlots :
              box_has_children[b] = 1 => box_has_children'[b] = 1
       /\ SplitScanStep =>
              \A b \in NewlySplitBoxes :
                  /\ box_has_children[b] = 0
                  /\ box_levels[b] + 1 = level]_vars

\* Without extents, a scan at level 2 or later has marked a box while a box
\* left unsplit by an earlier scan still holds its particles.
C30_Witness ==
    /\ pc = "split_and_sort"
    /\ ~srcntgts_have_extent
    /\ level >= 2
    /\ \E b \in Boxes : box_has_children[b] = 1 /\ box_levels[b] + 1 = level
    /\ \E b \in Boxes :
           /\ box_has_children[b] = 0
           /\ box_levels[b] + 1 < level
           /\ box_srcntgt_counts_cumul[b] > 0

\* ---------------------------------------------------------------------------
\* The Morton numbers of a level are those of the Morton scan that has just
\* run: between the scan and the end of the realization pass.
MortonNrsOfThisLevel == pc \in {"split_box_id_scan", "split_and_sort"}

\* The level-lvl cell of coordinate x on axis ax: the c with
\* c / 2^lvl <= (x - global_min) / global_extent < (c + 1) / 2^lvl.
CellOf(ax, x, lvl) ==
    CHOOSE c \in 0 .. Pow2(lvl) - 1 :
        /\ c * global_extent(ax) <= (x - global_min(ax)) * Pow2(lvl)
        /\ (x - global_min(ax)) * Pow2(lvl) < (c + 1) * global_extent(ax)

\* floor((x - global_min) / global_extent * 2^lvl) mod 2: the low bit of
\* that cell, which for a lattice coordinate and an extent of 2^k cells is
\* the even cell (x - global_min) * 2^(lvl - k) at every level past k.
CellBit(ax, x, lvl) ==
    IF lvl > ExtentBits[global_extent(ax)] THEN 0
    ELSE CellOf(ax, x, lvl) % 2

\* Bit `ax` of a d-bit number, the first axis being the most significant.
BitOfAxis(m, ax) == (m \div Pow2(dimensions - 1 - ax)) % 2

\* C31: after the Morton scan of level L, whatever L is, morton_nrs[i] of a
\* particle that is not marked non-child is a number in [0, 2^d) whose bit
\* for axis k (first axis most significant) is
\* floor((coord_k - min_k) / extent_k * 2^L) mod 2; without extents no
\* particle is marked non-child.
C31_LocalMortonNumber ==
    MortonNrsOfThisLevel =>
        \A i \in Particles :
            LET m == morton_nrs[i]
                u == user_srcntgt_ids[i]
            IN  /\ ~srcntgts_have_extent => m # -1
                /\ m # -1 =>
                       /\ m \in MortonNrs
                       /\ \A ax \in Axes :
                              BitOfAxis(m, ax)
                                  = CellBit(ax, coords[u][ax], level)

\* Twice the lower face of the level-lvl child box holding x, counted from
\* global_min, and twice the width of that box, both in units of
\* 1 / 2^lvl cells.
ChildBoxLow2(ax, x, lvl) == 2 * global_extent(ax) * CellOf(ax, x, lvl)

ChildBoxWidth2(ax) == 2 * global_extent(ax)

\* The interval [x - half, x + half] leaves the half-open box
\* [low - margin, low + width + margin); all in units of 1 / (2 * 2^lvl) cells.
LeavesBox(x2, half2, low2, width2, margin2) ==
    \/ x2 + half2 >= low2 + width2 + margin2
    \/ x2 - half2 < low2 - margin2

\* The interval of half-width radius * (1 + stick_out_factor) / 2 around
\* the coordinate of user particle u on axis ax crosses a face of the
\* level-lvl child box holding the coordinate.
ScaledRadiusCrosses(u, ax, lvl) ==
    LeavesBox(2 * Pow2(lvl) * (coords[u][ax] - global_min(ax)),
              Pow2(lvl) * srcntgt_radii[u] * (1 + stick_out_factor),
              ChildBoxLow2(ax, coords[u][ax], lvl), ChildBoxWidth2(ax), 0)

\* The interval of half-width radius around that coordinate is not inside
\* that child box widened on either side by stick_out_factor / 2 box widths.
LeavesScaledBox(u, ax, lvl) ==
    LeavesBox(2 * Pow2(lvl) * (coords[u][ax] - global_min(ax)),
              2 * Pow2(lvl) * srcntgt_radii[u],
              ChildBoxLow2(ax, coords[u][ax], lvl), ChildBoxWidth2(ax),
              stick_out_factor * global_extent(ax))

\* C32 as stated: a particle is marked non-child at level L exactly if on some
\* axis the interval of half-width radius * (1 + stick_out_factor) / 2 around
\* its coordinate crosses a face of the level-L child box holding its center;
\* every other particle gets the Morton number of its octant.
C32_Original ==
    (MortonNrsOfThisLevel /\ srcntgts_have_extent) =>
        \A i \in Particles :
            LET u == user_srcntgt_ids[i]
                crosses == \E ax \in Axes : ScaledRadiusCrosses(u, ax, level)
            IN  /\ (morton_nrs[i] = -1) <=> crosses
                /\ ~crosses =>
                       \A ax \in Axes :
                           BitOfAxis(morton_nrs[i], ax)
                               = CellOf(ax, coords[u][ax], level) % 2

\* C32: in extent mode a particle is marked non-child at level L exactly if
\* on some axis the interval of half-width radius around its coordinate is
\* not inside the level-L child box holding its center widened on either side
\* by stick_out_factor / 2 box widths (the box scaled by 1 + stick_out_factor
\* about its center, lower face included and upper face excluded); every
\* other particle gets the Morton number of its octant.
C32_StickOut ==
    (MortonNrsOfThisLevel /\ srcntgts_have_extent) =>
        \A i \in Particles :
            LET u == user_srcntgt_ids[i]
                leaves == \E ax \in Axes : LeavesScaledBox(u, ax, level)
            IN  /\ (morton_nrs[i] = -1) <=> leaves
                /\ ~leaves =>
                       \A ax \in Axes :
                           BitOfAxis(morton_nrs[i], ax)
                               = CellOf(ax, coords[u][ax], level) % 2

\* One scan marked a particle with an extent non-child because of one axis
\* alone, its interval staying inside the widened child box on the other
\* axis, and let another particle descend.
C32_Witness ==
    /\ MortonNrsOfThisLevel
    /\ srcntgts_have_extent
    /\ \E i, j \in Particles :
           LET u == user_srcntgt_ids[i]
           IN  /\ morton_nrs[i] = -1
               /\ srcntgt_radii[u] > 0
               /\ Cardinality({ax \in Axes :
                                  LeavesScaledBox(u, ax, level)}) = 1
               /\ morton_nrs[j] >= 0

\* ---------------------------------------------------------------------------
\* The partial results a decomposition of the Morton scan of this level can
\* combine: those of every run lo .. hi of particles, each with the flag
\* telling whether a segment starts inside the run.
PartialScanResults ==
    UNION {MortonDecompositions(run[1], run[2]) :
               run \in {r \in Particles \X Particles : r[1] <= r[2]}}

\* The merge of two partial results of a segmented scan.
SegmentedMerge(x, y) ==
    [val |-> scan_t_add(x.val, y.val, y.start), start |-> x.start \/ y.start]

\* The first particle of the segment of particle i.
SegmentStart(i) ==
    CHOOSE s \in 0 .. i :
        /\ s = 0 \/ box_start_flags[s] = 1
        /\ \A k \in s + 1 .. i : box_start_flags[k] = 0

\* The particles of i's segment up to i whose Morton number is m.
SegmentBin(i, m) ==
    {k \in SegmentStart(i) .. i :
        LevelMortonNumber(user_srcntgt_ids[k], level) = m}

\* The sum of the refine weights of the particles at S, capped at INT_MAX;
\* the sum is taken over the upper and the lower 16 bits separately.
CappedWeight(S) ==
    LET hi == SumOver([k \in S |->
                          refine_weights[user_srcntgt_ids[k]] \div Pow2(16)], S)
        lo == SumOver([k \in S |->
                          refine_weights[user_srcntgt_ids[k]] % Pow2(16)], S)
        top == hi + (lo \div Pow2(16))
    IN  IF top >= Pow2(15) THEN INT_MAX
        ELSE top * Pow2(16) + (lo % Pow2(16))

\* C33: the merge of the segmented Morton scan is associative on every three
\* partial results, wherever the segments start and also where weight sums
\* reach INT_MAX, so every decomposition of the scan yields the one record
\* per particle; in that record the counts are the numbers of particles of
\* the segment so far in each bin and the weights are the sums of their
\* refine weights, capped at INT_MAX.
C33_Associative ==
    pc = "split_box_id_scan" =>
        /\ \A x, y, z \in PartialScanResults :
               SegmentedMerge(SegmentedMerge(x, y), z)
                   = SegmentedMerge(x, SegmentedMerge(y, z))
        /\ \A i \in Particles :
               /\ {r.val : r \in MortonDecompositions(0, i)}
                      = {morton_bin_counts[i]}
               /\ morton_bin_counts[i].nonchild_srcntgts
                      = Cardinality(SegmentBin(i, -1))
               /\ \A m \in MortonNrs :
                      /\ morton_bin_counts[i].pcnt[m]
                             = Cardinality(SegmentBin(i, m))
                      /\ morton_bin_counts[i].pwt[m]
                             = CappedWeight(SegmentBin(i, m))

\* A scan with a segment starting behind the first particle in which a
\* weight sum is INT_MAX although the sum of the weights exceeds INT_MAX and
\* no single weight is INT_MAX.
C33_Witness ==
    /\ pc = "split_box_id_scan"
    /\ N = 3
    /\ \E j \in Particles : j > 0 /\ box_start_flags[j] = 1
    /\ \A i \in Particles : refine_weights[i] < INT_MAX
    /\ \E i \in Particles, m \in MortonNrs :
           /\ morton_bin_counts[i].pwt[m] = INT_MAX
           /\ Cardinality(SegmentBin(i, m)) >= 2
           /\ \A k \in SegmentBin(i, m) :
                  refine_weights[user_srcntgt_ids[k]] = INT_MAX - 1

\* ---------------------------------------------------------------------------
MortonScanStep == pc = "morton_count_scan" /\ pc' = "split_box_id_scan"

\* The particles of box b's range to which the scan gives Morton number m.
BinMembers(b, m) == {i \in BoxRange(b) : morton_nrs'[i] = m}

\* The record of box b after the scan holds the counts and weights of the
\* particles of its range, bin by bin.
RecordSumsBox(b) ==
    LET rec == box_morton_bin_counts'[b]
    IN  /\ rec.nonchild_srcntgts = Cardinality(BinMembers(b, -1))
        /\ \A m \in MortonNrs :
               /\ rec.pcnt[m] = Cardinality(BinMembers(b, m))
               /\ rec.pwt[m] =
                      SumOver([i \in Particles |->
                                  refine_weights[user_srcntgt_ids[i]]],
                              BinMembers(b, m))
        /\ rec.nonchild_srcntgts + SumOver(rec.pcnt, MortonNrs)
               = box_srcntgt_counts_cumul[b]

\* C34: the Morton scan of a level stores the record of every non-empty box
\* without children from one lane only, the last slot of the box, whose
\* particles fill its whole range; the record then holds the field-wise sum
\* of the one-hot records of the box's particles, so its non-child count and
\* its octant counts add up to the box's particle count.  No lane stores the
\* record of a box that has children, and no pass changes it: it keeps the
\* counts of the level at which the box was split.
C34_BoxAggregate ==
    [][/\ MortonScanStep =>
              \A b \in Boxes :
                  /\ IsLeaf(b) =>
                         /\ OwnSlots(b) = BoxRange(b)
                         /\ MortonBoxWriters(MortonScanItems, b)
                                = {box_srcntgt_starts[b]
                                       + box_srcntgt_counts_cumul[b] - 1}
                         /\ RecordSumsBox(b)
                  /\ box_has_children[b] = 1 =>
                         MortonBoxWriters(MortonScanItems, b) = {}
       /\ \A b \in Boxes :
              box_has_children[b] = 1 =>
                  box_morton_bin_counts'[b] = box_morton_bin_counts[b]]_vars

\* After the scan of a later level: a box that was split keeps a record with
\* a non-child particle, and a leaf of the level above holds two particles
\* that the scan counted in different bins.
C34_Witness ==
    /\ pc = "split_box_id_scan"
    /\ level >= 2
    /\ \E p, b \in Boxes :
           /\ box_has_children[p] = 1
           /\ box_morton_bin_counts[p].nonchild_srcntgts >= 1
           /\ IsLeaf(b)
           /\ box_levels[b] = level - 1
           /\ box_srcntgt_counts_cumul[b] = 2
           /\ \A m \in MortonNrs : box_morton_bin_counts[b].pcnt[m] = 1

\* ---------------------------------------------------------------------------
\* The source counter has run: sources and targets are distinct.
SourcesCounted == ~sources_are_targets /\ DOMAIN source_numbers = Particles

\* The tree-order positions in S that hold a source.
SourcePositions(S) == {k \in S : user_srcntgt_ids[k] < nsources}

\* C35 as stated: source_numbers[i] is the number of sources at or before
\* tree-order position i, position i included.
C35_Original ==
    SourcesCounted =>
        \A i \in Particles :
            source_numbers[i] = Cardinality(SourcePositions(0 .. i))

\* C35: the source-counter scan stores in source_numbers[i] the number of
\* sources strictly before tree-order position i, position i excluded.
C35_SourcesBefore ==
    SourcesCounted =>
        \A i \in Particles :
            source_numbers[i] = Cardinality(SourcePositions(0 .. i - 1))

\* A source at a position behind another source, and a target behind it.
C35_Witness ==
    /\ SourcesCounted
    /\ \E i, j \in Particles :
           /\ i < j
           /\ i \in SourcePositions(Particles)
           /\ source_numbers[i] >= 1
           /\ j \notin SourcePositions(Particles)

\* ---------------------------------------------------------------------------
\* The fields of the record of box b that the realization pass may store.
RecordOf(b) ==
    <<box_srcntgt_starts[b], box_srcntgt_counts_cumul[b], box_parent_ids[b],
      box_morton_nrs[b], box_levels[b]>>

RecordAfterPass(b) ==
    <<box_srcntgt_starts'[b], box_srcntgt_counts_cumul'[b],
      box_parent_ids'[b], box_morton_nrs'[b], box_levels'[b]>>

\* C36: a realization pass stores what the read buffers user_srcntgt_ids and
\* srcntgt_box_ids held before the pass (they are not altered under the
\* lanes), leaves the start, count, parent, Morton number and level of every
\* box that existed before this level as they were, stores box records only
\* at box ids from the previous level's box count on, and no lane reads the
\* record of a box that a lane stores in the same pass.
C36_RealizationFrame ==
    [][RealizationStep =>
          /\ \A i \in Particles :
                 /\ user_srcntgt_ids'[DestinationIdx(i)] = user_srcntgt_ids[i]
                 /\ srcntgt_box_ids'[DestinationIdx(i)] = DestinationBoxId(i)
          /\ \A b \in BoxSlots :
                 /\ b < prev_nboxes => RecordAfterPass(b) = RecordOf(b)
                 /\ RecordAfterPass(b) # RecordOf(b) => b >= prev_nboxes
          /\ \A i \in ChildBoxWriters :
                 /\ new_box_id(i) >= prev_nboxes
                 /\ new_box_id(i) \in BoxSlots
                 /\ \A j \in Particles : srcntgt_box_ids[j] # new_box_id(i)]_vars

\* A pass of level 2 or later has set up a non-empty box while boxes of the
\* levels before hold particles of their own.
C36_Witness ==
    /\ pc # "split_and_sort"
    /\ prev_nboxes > 1
    /\ \E b \in BoxesOfThisLevel, p \in 1 .. prev_nboxes - 1 :
           /\ box_levels[b] >= 2
           /\ box_srcntgt_counts_cumul[b] > 0
           /\ box_srcntgt_counts_cumul[p] > 0
           /\ box_parent_ids[b] # p

\* ---------------------------------------------------------------------------
\* The particles of box b that the level below b's own does not mark
\* non-child, and the refine weight of a set of tree-order positions.
CouldDescend(b) ==
    {i \in OwnSlots(b) :
        LevelMortonNumber(user_srcntgt_ids[i], box_levels[b] + 1) # -1}

WeightOfSlots(S) ==
    SumOver([i \in Particles |-> refine_weights[user_srcntgt_ids[i]]], S)

\* C37: when an adaptive build ends in DONE no box without children would
\* pass the split test: the refine weights of the particles of the box that
\* could descend one more level sum to max_leaf_refine_weight at most, which
\* without extents is the weight of all particles of the box.
C37_NoLeafLeftToSplit ==
    (pc = "done" /\ adaptive) =>
        \A b \in Boxes :
            box_has_children[b] = 0 =>
                /\ WeightOfSlots(CouldDescend(b)) <= max_leaf_refine_weight
                /\ ~srcntgts_have_extent =>
                       WeightOfSlots(BoxRange(b)) <= max_leaf_refine_weight

\* A finished adaptive build of two levels or more with a leaf that weighs
\* more than the threshold, all but the threshold's worth being held by
\* particles that cannot descend, and a leaf that splitting made light enough.
C37_Witness ==
    /\ pc = "done" /\ adaptive
    /\ level >= 2
    /\ \E b, c \in Boxes :
           /\ IsLeaf(b)
           /\ WeightOfSlots(BoxRange(b)) > max_leaf_refine_weight
           /\ IsLeaf(c)
           /\ box_levels[c] >= 1
           /\ WeightOfSlots(BoxRange(c)) = max_leaf_refine_weight

\* ---------------------------------------------------------------------------
\* Box b is marked as split and the realization pass of that level has run.
SplitAndRealized(b) == box_has_children[b] = 1 /\ pc # "split_and_sort"

\* The ids that the child slots of box p hold; 0 stands for no child.
ChildSlotIds(p) == {box_child_ids[m][p] : m \in MortonNrs} \ {0}

\* C38: in every mode a box marked has-children has a child holding a
\* particle, and in the finished tree, pruned or not, every box flagged
\* HAS_CHILDREN has a child of its own in one of its child slots.
C38_ParentsHaveChildren ==
    /\ \A b \in Boxes : SplitAndRealized(b) => ChildBoxes(b) # {}
    /\ pc = "tree" =>
           \A b \in Boxes :
               BOX_HAS_CHILDREN \in box_flags[b] =>
                   \E c \in ChildSlotIds(b) : c \in ChildBoxes(b)

\* ---------------------------------------------------------------------------
\* The tree is finished: the per-box passes over it may run.
TreeFinished == pc \in {"tree", "target_filter_index", "filtered"}

\* C39: the per-box passes read the per-particle arrays inside their bounds:
\* the filter index pass reads filtered_from_unfiltered_target_index below
\* ntargets only and the point source pass reads
\* tree_order_point_source_starts below nsources only, also for a box without
\* targets (sources) that lies behind the last target (source).
C39_ReadsInBounds ==
    /\ pc = "target_filter_index" =>
           \A b \in Boxes :
               \A k \in TargetFilterIndexReads(b) : k < NTargetsOfTree
    /\ (TreeFinished /\ nsources > 0) =>
           \A b \in Boxes :
               \A k \in BoxPointSourceReads(b) : k < nsources

\* ---------------------------------------------------------------------------
\* Particle u sits at tree-order position i before the step and at position
\* j after it.
MovesFromTo(u, i, j) == user_srcntgt_ids[i] = u /\ user_srcntgt_ids'[j] = u

\* Position i holds a particle that does not leave its box p although p has
\* children: it was marked non-child when p was split at this level, or p was
\* split at an earlier level.
StaysBehind(i) ==
    /\ box_has_children[srcntgt_box_ids[i]] = 1
    /\ ~do_split_box(i) \/ morton_nrs[i] = -1

\* C40: from one level to the next a particle stays in its box or moves to a
\* child of that box created at this level, the child of its Morton number,
\* so the level of its box never goes down; a particle that is non-child
\* when its box is split keeps that box at this and every later level, at a
\* position inside the leading non-child segment of the box's range.
C40_BoxOfParticle ==
    [][\A u \in 0 .. N - 1 : \A i \in Particles :
           user_srcntgt_ids[i] = u =>
               /\ \E j \in Particles : user_srcntgt_ids'[j] = u
               /\ \A j \in Particles :
                      MovesFromTo(u, i, j) =>
                          LET b == srcntgt_box_ids[i]
                              c == srcntgt_box_ids'[j]
                          IN  /\ c \in DOMAIN box_parent_ids'
                              /\ \/ c = b
                                 \/ /\ RealizationStep
                                    /\ c >= prev_nboxes
                                    /\ box_parent_ids'[c] = b
                                    /\ box_levels'[c] = level
                                    /\ box_levels[b] = level - 1
                                    /\ box_morton_nrs'[c] = morton_nrs[i]
                              /\ box_levels'[c] >= box_levels[b]
                              /\ (RealizationStep /\ do_split_box(i)
                                      /\ morton_nrs[i] # -1) => c # b
                              /\ StaysBehind(i) =>
                                     /\ c = b
                                     /\ j >= box_srcntgt_starts'[b]
                                     /\ j < box_srcntgt_starts'[b]
                                                + NonchildSrcntgtsInBox(b)]_vars

\* After a pass of level 2 or later: a particle kept by a box split at an
\* earlier level, and a particle in a box of this level.
C40_Witness ==
    /\ pc # "split_and_sort"
    /\ level >= 2
    /\ \E i, j \in Particles :
           LET p == srcntgt_box_ids[i]
               c == srcntgt_box_ids[j]
           IN  /\ box_has_children[p] = 1
               /\ box_levels[p] <= box_levels[c] - 2
               /\ box_levels[c] >= 2
               /\ i - box_srcntgt_starts[p] < NonchildSrcntgtsInBox(p)

====
